---------------------------- MODULE Spec2Model ----------------------------
(***************************************************************************)
(* A model of cursor_gui_patch: the patch units (patches/*.py), the backup *)
(* store (backup.py), the staleness cache (cache.py) and the patch         *)
(* orchestration engine (patching.py).                                     *)
(*                                                                         *)
(* File content is a sequence of text fragments ("tokens") joined by a     *)
(* one-character separator.  Every token stands for a fixed piece of       *)
(* JavaScript text; the substring tests and regular expressions of the     *)
(* patch units are evaluated on the tokens' texts, and TokLen gives the    *)
(* number of characters of each text, so that sizes and text offsets are   *)
(* those of the real strings.                                              *)
(***************************************************************************)
EXTENDS Integers, Sequences, FiniteSets, TLC

(***************************************************************************)
(* Bounds of the model.                                                    *)
(***************************************************************************)
MaxLen == 3

(***************************************************************************)
(* Tokens.                                                                 *)
(***************************************************************************)
\* The autorun fragments are ar_impl (the method "async getAutoRunControls()
\* {const e=await this.getTeamAdminSettings();...}"), ar_call (a call site
\* "this.teamSettingsService.getAutoRunControls()"), ar_name and ar_tss (the
\* bare words getAutoRunControls and teamSettingsService), ar_tas (the method
\* "async getTeamAdminSettings(){return(...)}"), their patched forms (_p) and
\* ar_mark (the bare marker).
\* A token: its kind t, for a service descriptor its module prefix p and its
\* MethodKind variable k, for a digest the content h it is the digest of.
T(name) == [t |-> name, p |-> "", k |-> "", h |-> << >>]

D(name, prefix, kind) == [t |-> name, p |-> prefix, k |-> kind, h |-> << >>]

\* Number of characters of a token's text (prefixes and kind variables are
\* one-letter identifiers, as in the minified bundles).
TokLen(tok) ==
    CASE tok.t = "ar_impl"       -> 142
      [] tok.t = "ar_call"       -> 45
      [] tok.t = "ar_name"       -> 18
      [] tok.t = "ar_tss"        -> 19
      [] tok.t = "ar_impl_p"     -> 73
      [] tok.t = "ar_call_p"     -> 55
      [] tok.t = "ar_mark"       -> 26
      [] tok.t = "ar_tas"        -> 173
      [] tok.t = "ar_tas_p"      -> 219
      [] tok.t = "m_usable"      -> 119
      [] tok.t = "m_avail"       -> 119
      [] tok.t = "m_req"         -> 24
      [] tok.t = "m_patched"     -> 151
      [] tok.t = "m_stream"      -> 129
      [] tok.t = "m_mark"        -> 26
      [] tok.t = "wb_def_old"    -> 41
      [] tok.t = "wb_def_new"    -> 41
      [] tok.t = "wb_comp_old"   -> 61
      [] tok.t = "wb_comp_new"   -> 20
      [] tok.t = "wb_def_new_m"  -> 74
      [] tok.t = "wb_comp_new_m" -> 53
      [] tok.t = "wb_mark"       -> 27
      [] tok.t = "other"         -> 29
      [] tok.t = "bad"           -> 1
      [] tok.t = "repl"          -> 3
      [] tok.t = "torn"          -> 7
      [] tok.t = "hash"          -> 64
      [] tok.t = "chk"           -> 43
      [] tok.t = "json"          -> IF tok.p = "compact" THEN 67 ELSE 69
      [] OTHER                   -> 2

RECURSIVE TextLen(_)
\* len(content): the tokens' texts and the separators between them.
TextLen(c) ==
    IF c = << >> THEN 0
    ELSE IF Len(c) = 1 THEN TokLen(c[1])
    ELSE TokLen(c[1]) + 1 + TextLen(Tail(c))

\* Text offset at which token i of c starts.
Offset(c, i) == IF i = 1 THEN 0 ELSE TextLen(SubSeq(c, 1, i - 1)) + 1

Has(c, kinds) == \E i \in 1..Len(c) : c[i].t \in kinds

First(c, kinds) == CHOOSE i \in 1..Len(c) :
                      /\ c[i].t \in kinds
                      /\ \A j \in 1..(i - 1) : c[j].t \notin kinds

Count(c, kinds) == Cardinality({i \in 1..Len(c) : c[i].t \in kinds})

\* A variant whose applied flag starts set.
PatchResult_applied == [applied |-> TRUE, already_patched |-> FALSE,
                        not_applicable |-> FALSE, replacements |-> 0]

PatchResult == [applied |-> FALSE, already_patched |-> FALSE,
                not_applicable |-> FALSE, replacements |-> 0]

Out(content, result) == [content |-> content, result |-> result]

(***************************************************************************)
(* patches/autorun.py                                                      *)
(***************************************************************************)
\* A variant that never sees the marker.
AutoRun_is_already_patched_never(c) == FALSE

\* _MARKER in content
AutoRun_is_already_patched(c) ==
    Has(c, {"ar_impl_p", "ar_call_p", "ar_mark", "ar_tas_p"})

\* "getAutoRunControls" in content and "teamSettingsService" in content
AutoRun_is_applicable(c) ==
    /\ Has(c, {"ar_impl", "ar_call", "ar_name", "ar_impl_p"})
    /\ Has(c, {"ar_call", "ar_tss"})

\* _RE_METHOD_IMPL.subn followed by _RE_CALL_SITE.subn.  Neither matches the
\* caching layer's method "async getTeamAdminSettings(){...}" (ar_tas).
AutoRun_subn(c) ==
    [i \in 1..Len(c) |->
        IF c[i].t = "ar_impl" THEN T("ar_impl_p")
        ELSE IF c[i].t = "ar_call" THEN T("ar_call_p")
        ELSE c[i]]

\* A variant that runs the substitutions without asking is_applicable.
AutoRun_apply_eager(c) ==
    IF AutoRun_is_already_patched(c)
    THEN Out(c, [PatchResult EXCEPT !.already_patched = TRUE])
    ELSE LET total == Count(c, {"ar_impl"}) + Count(c, {"ar_call"})
         IN  IF total > 0
             THEN Out(AutoRun_subn(c),
                      [PatchResult EXCEPT !.applied = TRUE,
                                          !.replacements = total])
             ELSE Out(AutoRun_subn(c),
                      [PatchResult EXCEPT !.not_applicable = TRUE])

AutoRun_apply(c) ==
    IF AutoRun_is_already_patched(c)
    THEN Out(c, [PatchResult EXCEPT !.already_patched = TRUE])
    ELSE IF ~AutoRun_is_applicable(c)
    THEN Out(c, [PatchResult EXCEPT !.not_applicable = TRUE])
    ELSE LET total == Count(c, {"ar_impl"}) + Count(c, {"ar_call"})
         IN  IF total > 0
             THEN Out(AutoRun_subn(c),
                      [PatchResult EXCEPT !.applied = TRUE,
                                          !.replacements = total])
             ELSE Out(AutoRun_subn(c),
                      [PatchResult EXCEPT !.not_applicable = TRUE])

(***************************************************************************)
(* patches/autorun_workbench.py                                            *)
(***************************************************************************)
Workbench_is_already_patched(c) ==
    Has(c, {"wb_def_new_m", "wb_comp_new_m", "wb_mark"})

\* _OLD_DEFAULT in content or _OLD_COMPUTED in content
Workbench_is_applicable(c) == Has(c, {"wb_def_old", "wb_comp_old"})

\* str.replace(old, new, 1): the first occurrence only.
ReplaceFirst(c, kinds, new) ==
    IF Has(c, kinds) THEN [c EXCEPT ![First(c, kinds)] = new] ELSE c

\* Tokens whose text contains _NEW_COMPUTED ("isDisabledByAdmin:!1"); the
\* text of _NEW_DEFAULT ends with it.
WbNewComputedIn == {"wb_def_new", "wb_comp_new", "wb_def_new_m", "wb_comp_new_m"}

\* A variant that injects no marker comment.
Workbench_mark_none(c) == c

\* The marker comment is put after the first occurrence of _NEW_COMPUTED.
Workbench_mark(c) ==
    IF Has(c, WbNewComputedIn)
    THEN LET i == First(c, WbNewComputedIn)
         IN  [c EXCEPT ![i] =
                 IF c[i].t = "wb_def_new" THEN T("wb_def_new_m")
                 ELSE IF c[i].t = "wb_comp_new" THEN T("wb_comp_new_m")
                 ELSE c[i]]
    ELSE ReplaceFirst(c, {"wb_def_new"}, T("wb_def_new_m"))

Workbench_apply(c) ==
    IF Workbench_is_already_patched(c)
    THEN Out(c, [PatchResult EXCEPT !.already_patched = TRUE])
    ELSE IF ~Workbench_is_applicable(c)
    THEN Out(c, [PatchResult EXCEPT !.not_applicable = TRUE])
    ELSE LET c1 == ReplaceFirst(c, {"wb_def_old"}, T("wb_def_new"))
             n1 == IF Has(c, {"wb_def_old"}) THEN 1 ELSE 0
             c2 == ReplaceFirst(c1, {"wb_comp_old"}, T("wb_comp_new"))
             n2 == IF Has(c1, {"wb_comp_old"}) THEN 1 ELSE 0
             count == n1 + n2
         IN  IF count > 0
             THEN Out(Workbench_mark(c2),
                      [PatchResult EXCEPT !.applied = TRUE,
                                          !.replacements = count])
             ELSE Out(c2, [PatchResult EXCEPT !.not_applicable = TRUE])

(***************************************************************************)
(* patches/models.py                                                       *)
(***************************************************************************)
Models_is_already_patched(c) == Has(c, {"m_patched", "m_mark"})

\* "GetUsableModels" in content and "MethodKind" in content
Models_is_applicable(c) ==
    /\ Has(c, {"m_usable", "m_stream"})
    /\ Has(c, {"m_usable", "m_avail", "m_patched", "m_stream"})

\* Indexes of the tokens _RE_AVAILABLE_DESCRIPTOR matches, in text order;
\* Offset gives m.start(), the token's p and k are groups 1 and 2.
find_available_prefixes(c) == {i \in 1..Len(c) : c[i].t = "m_avail"}

Abs(n) == IF n < 0 THEN -n ELSE n

\* A variant that returns the last of the elements with the least key.
min_last(S) == CHOOSE i \in S : \A j \in S : j <= i

\* min() returns the first, in the order of the list, of the elements with
\* the least key; S holds their indexes.
min_first(S) == CHOOSE i \in S : \A j \in S : i <= j

\* A variant that takes the first descriptor of the content.
find_first_available_prefix(c, pos, available) ==
    CHOOSE i \in available : \A j \in available : i <= j

\* min(available, key=|position - pos|): the first of the nearest.
find_nearest_available_prefix(c, pos, available) ==
    min_first({i \in available :
                  \A j \in available :
                      Abs(Offset(c, i) - pos) <= Abs(Offset(c, j) - pos)})

make_replacement(prefix, kind_var) == D("m_patched", prefix, kind_var)

\* f"{prefix}.AvailableModelsRequest" in content
HasAvailableRequest(c, prefix) ==
    \E i \in 1..Len(c) : /\ c[i].t \in {"m_avail", "m_req", "m_patched"}
                         /\ c[i].p = prefix

\* A variant that always rewrites the site with its own prefix.
Models_replacer_own(c, i) == make_replacement(c[i].p, c[i].k)

\* The replacer of ModelsPatch.apply on the site at index i of c.
Models_replacer(c, i) ==
    IF HasAvailableRequest(c, c[i].p)
    THEN make_replacement(c[i].p, c[i].k)
    ELSE IF find_available_prefixes(c) # {}
    THEN make_replacement(
             c[find_nearest_available_prefix(c, Offset(c, i),
                                             find_available_prefixes(c))].p,
             c[i].k)
    ELSE c[i]

Models_sub(c) ==
    [i \in 1..Len(c) |-> IF c[i].t = "m_usable" THEN Models_replacer(c, i)
                         ELSE c[i]]

Models_apply(c) ==
    IF Models_is_already_patched(c)
    THEN Out(c, [PatchResult EXCEPT !.already_patched = TRUE])
    ELSE IF ~Models_is_applicable(c)
    THEN Out(c, [PatchResult EXCEPT !.not_applicable = TRUE])
    ELSE LET new_content == Models_sub(c)
             total == Cardinality({i \in 1..Len(c) :
                          c[i].t = "m_usable" /\ new_content[i] # c[i]})
         IN  IF total > 0
             THEN Out(new_content,
                      [PatchResult EXCEPT !.applied = TRUE,
                                          !.replacements = total])
             ELSE Out(new_content,
                      [PatchResult EXCEPT !.not_applicable = TRUE])

(***************************************************************************)
(* patches/__init__.py: the registry.                                      *)
(***************************************************************************)
PATCHES == {"autorun", "models"}

\* The patch units that exist as classes, registered or not.
Units == {"autorun", "models", "autorun_workbench"}

\* get_patch(name) raises ValueError for a name that is not registered.
get_patch_raises(name) == name \notin PATCHES

Unit_apply(name, c) ==
    CASE name = "autorun" -> AutoRun_apply(c)
      [] name = "models" -> Models_apply(c)
      [] name = "autorun_workbench" -> Workbench_apply(c)

Unit_is_already_patched(name, c) ==
    CASE name = "autorun" -> AutoRun_is_already_patched(c)
      [] name = "models" -> Models_is_already_patched(c)
      [] name = "autorun_workbench" -> Workbench_is_already_patched(c)

Unit_is_applicable(name, c) ==
    CASE name = "autorun" -> AutoRun_is_applicable(c)
      [] name = "models" -> Models_is_applicable(c)
      [] name = "autorun_workbench" -> Workbench_is_applicable(c)

(***************************************************************************)
(* The installations and their files.  A path is <<installation, name>>;  *)
(* the names are the target files of discovery.py, the loader file         *)
(* (out/vs/workbench/api/node/extensionHostProcess.js) and product.json.   *)
(***************************************************************************)
Insts == {1, 2}

\* EXTENSION_TARGETS followed by WORKBENCH_TARGETS, in target_files() order.
TargetNames == <<"agent", "local", "retrieval", "commits", "wb">>

TargetNameSet == {TargetNames[j] : j \in 1..Len(TargetNames)}

\* The "patches" entry of each target.
patch_names(n) ==
    CASE n = "agent" -> <<"autorun">>
      [] n \in {"local", "retrieval", "commits"} -> <<"models">>
      [] n = "wb" -> <<"autorun_workbench">>

Names == TargetNameSet \cup {"loader", "pj"}

Paths == Insts \X Names

_EXT_HOST_RELPATH(i) == <<i, "loader">>

product_json(i) == <<i, "pj">>

\* p.relative_to(inst.root / "out") succeeds.
UnderOut(p) == p[2] \in {"wb", "loader"}

\* The out/-relative POSIX path of a file, the key of the checksums table.
RelToOut(p) == p[2]

\* sha256(bytes).hexdigest(): one literal per content (no collisions).
Sha256Hex(bytes) == [t |-> "hash", p |-> "", k |-> "", h |-> bytes]

\* The entry key -> base64(sha256(bytes)).rstrip("=") of the checksums table.
Checksum(key, bytes) == [t |-> "chk", p |-> key, k |-> "", h |-> bytes]

\* bytes.decode("utf-8", errors="replace"): an invalid byte becomes U+FFFD.
Decode(bytes) ==
    [j \in 1..Len(bytes) |-> IF bytes[j].t = "bad" THEN T("repl") ELSE bytes[j]]

\* str.encode("utf-8"): U+FFFD is written as its three bytes.
Encode(str) == str

\* What a write that failed part-way leaves in the file.
Torn == <<T("torn")>>

(***************************************************************************)
(* backup.py: the operations on one file and its sidecar.  A sidecar is    *)
(* [exists, bytes].                                                        *)
(***************************************************************************)
_BACKUP_SUFFIX == ".cgp.bak"

backup_path(original) == <<original, _BACKUP_SUFFIX>>

NoSidecar == [exists |-> FALSE, bytes |-> << >>]

\* A variant that copies the file over an existing sidecar.
create_backup_overwrite(bytes, side) == [exists |-> TRUE, bytes |-> bytes]

\* create_backup when the copy does not raise: the sidecar is written only
\* if there is none.
create_backup(bytes, side) ==
    IF side.exists THEN side ELSE [exists |-> TRUE, bytes |-> bytes]

\* A variant that leaves the file as it is.
restore_backup_keep(bytes, side) == [ret |-> side.exists, bytes |-> bytes]

\* restore_backup when the copy does not raise: the file gets the sidecar's
\* bytes; without a sidecar the file is left alone and False is returned.
restore_backup(bytes, side) ==
    IF side.exists THEN [ret |-> TRUE, bytes |-> side.bytes]
    ELSE [ret |-> FALSE, bytes |-> bytes]

\* remove_backup when unlink does not raise.
remove_backup(side) == [ret |-> side.exists, side |-> NoSidecar]

(***************************************************************************)
(* cache.py                                                                *)
(***************************************************************************)
_CACHE_VERSION == 1

_CACHE_SIGNATURE == "cgp_v1_autorun+models"

STATUS_PATCHED == "already_patched"

STATUS_NOT_APPLICABLE == "not_applicable"

\* A value of the "files" dictionary, in memory or in the JSON file: has says
\* whether the key is there, is_dict whether its value is a dictionary;
\* mtime_ns and size are numbers with the type they have in Python or JSON
\* ("int", "float": the number is its integer part and a fraction follows,
\* "bool", or "other" for a string, null or a missing key).
NoEntry == [has |-> FALSE, is_dict |-> FALSE, mtime_ns |-> 0, mtime_is |-> "other",
            size |-> 0, size_is |-> "other", status |-> ""]

NoEntries == [n \in TargetNameSet |-> NoEntry]

\* No cache file.  form is what the file's text parses to: "object" (a JSON
\* object), "array" (JSON, but not an object) or "garbage" (not JSON).
NoCacheFile == [exists |-> FALSE, form |-> "garbage", version |-> 0,
                signature |-> "", files_is_dict |-> FALSE, files |-> NoEntries]

\* The value None of an Optional[Dict].
NoneDict == [some |-> FALSE, files |-> NoEntries]

EmptyDict == [some |-> TRUE, files |-> NoEntries]

\* make_cache_key: the path relative to the installation root.
make_cache_key(p) == p[2]

make_cache_entry(status, st) ==
    [has |-> TRUE, is_dict |-> TRUE, mtime_ns |-> st.mtime_ns, mtime_is |-> "int",
     size |-> st.size, size_is |-> "int", status |-> status]

\* A variant that matches no entry.
cache_entry_matches_never(entry, st) == FALSE

\* Stored (mtime_ns, size) equal the file's.
cache_entry_matches(entry, st) ==
    entry.mtime_ns = st.mtime_ns /\ entry.size = st.size

\* _coerce_int: None for a bool, int(value) for an int or a float, else None.
coerce_int(is, value) ==
    IF is = "bool" THEN [some |-> FALSE, value |-> 0]
    ELSE IF is \in {"int", "float"} THEN [some |-> TRUE, value |-> value]
    ELSE [some |-> FALSE, value |-> 0]

\* The body of load_cache's loop over files.items() for one value v.
load_entry(v) ==
    IF ~v.has \/ ~v.is_dict THEN NoEntry
    ELSE LET mtime_ns == coerce_int(v.mtime_is, v.mtime_ns)
             size == coerce_int(v.size_is, v.size)
         IN  IF ~mtime_ns.some \/ ~size.some THEN NoEntry
             ELSE IF v.status \notin {STATUS_PATCHED, STATUS_NOT_APPLICABLE}
             THEN NoEntry
             ELSE [has |-> TRUE, is_dict |-> TRUE,
                   mtime_ns |-> mtime_ns.value, mtime_is |-> "int",
                   size |-> size.value, size_is |-> "int",
                   status |-> v.status]

\* A variant that does not look at the version.
load_cache_any_version(file) ==
    IF ~file.exists \/ file.form # "object" THEN NoneDict
    ELSE IF file.signature # _CACHE_SIGNATURE THEN NoneDict
    ELSE IF ~file.files_is_dict THEN NoneDict
    ELSE [some |-> TRUE, files |-> [n \in TargetNameSet |-> load_entry(file.files[n])]]

\* load_cache: None for a missing file, a text that is not a JSON object,
\* another version or signature, or "files" that is not a dictionary; else
\* the entries that are well-formed.
load_cache(file) ==
    IF ~file.exists THEN NoneDict
    ELSE IF file.form = "garbage" THEN NoneDict
    ELSE IF file.form # "object" THEN NoneDict
    ELSE IF file.version # _CACHE_VERSION THEN NoneDict
    ELSE IF file.signature # _CACHE_SIGNATURE THEN NoneDict
    ELSE IF ~file.files_is_dict THEN NoneDict
    ELSE [some |-> TRUE,
          files |-> [n \in TargetNameSet |-> load_entry(file.files[n])]]

\* save_cache: the payload written by _atomic_write_json.
save_cache(files) ==
    [exists |-> TRUE, form |-> "object", version |-> _CACHE_VERSION,
     signature |-> _CACHE_SIGNATURE, files_is_dict |-> TRUE, files |-> files]

(***************************************************************************)
(* State.                                                                  *)
(***************************************************************************)
VARIABLES
    present,     \* the paths that are files on disk
    data,        \* path -> bytes
    mtime,       \* path -> st_mtime_ns (a per-file write counter)
    bakPresent,  \* the paths whose .cgp.bak sidecar exists
    bakData,     \* path -> bytes of the sidecar
    cache,       \* installation -> .cgp-patch-cache.json
    signed,      \* installation -> needs_codesign(root, kind)
    pc,          \* position of the running operation
    run,         \* arguments and locals of the running operation
    report,      \* the PatchReport / UnpatchReport being built
    faults,      \* number of I/O failures injected so far
    ops,         \* number of operations started so far
    hist,        \* history of the run, read by the properties only
    unit, x, y1, y2, phase,   \* a patch unit applied twice to a content
    store,       \* one file, its sidecar and the calls of backup.py on it
    cstore,      \* one cache file, what was saved to it and what was loaded
    sview,       \* one target file and what status() reports of it
    aw           \* the cache path, its .tmp neighbour and the processes saving

vars == <<present, data, mtime, bakPresent, bakData, cache, signed, pc, run,
          report, faults, ops, hist, unit, x, y1, y2, phase, store, cstore,
          sview, aw>>

fsVars == <<present, data, mtime, bakPresent, bakData, cache>>

\* The variables of the patch-unit, backup-store, cache-file and status
\* scenarios.
unitVars == <<unit, x, y1, y2, phase, store, cstore, sview, aw>>

\* Bounds of the engine's runs.
MaxOps == 2

MaxFaults == 1

MaxUpdates == 1

\* os.stat_result: the two fields the cache reads.
Stat(p) == [mtime_ns |-> mtime[p], size |-> TextLen(data[p])]

has_backup(p) == p \in bakPresent

\* CursorInstallation.target_files(): the targets that are files, in order.
target_files(i) ==
    SelectSeq([j \in 1..Len(TargetNames) |-> <<i, TargetNames[j]>>],
              LAMBDA p : p \in present)

NoOnly == [given |-> FALSE, names |-> {}]

Only(names) == [given |-> TRUE, names |-> names]

RunIdle ==
    [op |-> "none", dry_run |-> FALSE, force |-> FALSE, only_patches |-> NoOnly,
     insts |-> << >>, queue |-> << >>, inst |-> 0, targets |-> << >>, idx |-> 0,
     cache_data |-> NoneDict, new_cache |-> NoneDict, hash_pairs |-> << >>,
     errors_before_install |-> 0, patched_before |-> 0,
     restored_before |-> 0, ext_host_modified |-> FALSE,
     rolled_back |-> FALSE]

Report0 ==
    [scanned |-> 0, patched |-> << >>, already_patched |-> 0,
     skipped_not_applicable |-> 0, skipped_cached |-> 0, errors |-> << >>,
     codesign |-> << >>, restored |-> << >>, no_backup |-> << >>]

\* PatchReport.ok
ReportOk(r) == r.errors = << >>

\* What is remembered of the last operation that returned.
NoLast ==
    [op |-> "none", dry_run |-> FALSE, only_patches |-> NoOnly,
     insts |-> << >>, clean |-> FALSE, ok |-> FALSE, patched |-> {},
     restored |-> {}, pre |-> [p \in Paths |-> << >>], preBak |-> {},
     end |-> [p \in Paths |-> [mtime_ns |-> 0, size |-> 0]]]

\* The history of the current operation: the state it started from, the
\* files it read, the outcome of each target, and, across operations, the
\* files whose bytes on disk were written by the patch engine and the last
\* operation.
Hist0 ==
    [reads |-> {}, outcome |-> [p \in Paths |-> "none"],
     pre |-> data, preMtime |-> mtime, prePresent |-> present,
     preBak |-> bakPresent, preBakData |-> bakData, preCache |-> cache,
     faults0 |-> faults, engine |-> {}, last |-> NoLast]

HistStart == [Hist0 EXCEPT !.engine = hist.engine, !.last = hist.last]

(***************************************************************************)
(* patching.py: patch()                                                    *)
(***************************************************************************)
\* The restrictions a caller passes: none, a registered name, and a name that
\* no registry entry carries.
OnlyChoices == {NoOnly, Only({"autorun"}), Only({"nonesuch"})}

InstLists == {<<1>>, <<2, 1>>}

\* patch(installations=..., dry_run=..., force=..., only_patches=...)
StartPatch ==
    /\ pc = "idle"
    /\ ops.runs < MaxOps
    /\ \E d \in BOOLEAN, f \in BOOLEAN, o \in OnlyChoices, q \in InstLists :
          run' = [RunIdle EXCEPT !.op = "patch", !.dry_run = d, !.force = f,
                                 !.only_patches = o, !.insts = q,
                                 !.queue = q]
    /\ report' = Report0
    /\ pc' = "inst"
    /\ ops' = [ops EXCEPT !.runs = @ + 1]
    /\ hist' = HistStart
    /\ UNCHANGED <<fsVars, signed, faults, unitVars>>

\* The head of _patch_installation: the cache is loaded unless the run is
\* dry or forced, and the targets are enumerated.
BeginInstallation ==
    /\ pc = "inst"
    /\ run.op = "patch"
    /\ run.queue # << >>
    /\ LET i == Head(run.queue)
           targets == target_files(i)
       IN  /\ run' = [run EXCEPT
                 !.queue = Tail(run.queue),
                 !.inst = i,
                 !.targets = targets,
                 !.idx = 1,
                 !.cache_data = IF ~run.dry_run /\ ~run.force
                                THEN load_cache(cache[i]) ELSE NoneDict,
                 !.new_cache = IF ~run.dry_run THEN EmptyDict ELSE NoneDict,
                 !.hash_pairs = << >>,
                 !.errors_before_install = Len(report.errors),
                 !.patched_before = Len(report.patched),
                 !.ext_host_modified = FALSE,
                 !.rolled_back = FALSE]
           /\ pc' = IF targets = << >> THEN "hashsync" ELSE "target"
    /\ UNCHANGED <<fsVars, signed, report, faults, ops, hist, unitVars>>

CurPath == run.targets[run.idx]

CurKey == make_cache_key(CurPath)

\* The cache holds an entry of the current target that matches its stat.
CacheHit ==
    /\ run.cache_data.some
    /\ run.cache_data.files[CurKey].has
    /\ cache_entry_matches(run.cache_data.files[CurKey], Stat(CurPath))

\* if only_patches: patch_names = [n for n in patch_names if n in only_patches]
WantedNames(p, only) ==
    IF only.given /\ only.names # {}
    THEN SelectSeq(patch_names(p[2]), LAMBDA n : n \in only.names)
    ELSE patch_names(p[2])

RECURSIVE apply_patches(_, _)
\* The loop over patch_names of _patch_target: acc holds new_content, the
\* flags and the names get_patch raised for.
apply_patches(names, acc) ==
    IF names = << >> THEN acc
    ELSE IF get_patch_raises(Head(names))
    THEN apply_patches(Tail(names),
                       [acc EXCEPT !.unknown = Append(@, Head(names))])
    ELSE LET o == Unit_apply(Head(names), acc.new_content)
         IN  apply_patches(Tail(names),
                 [acc EXCEPT
                     !.new_content = o.content,
                     !.any_applied = @ \/ o.result.applied,
                     !.any_already = @ \/ o.result.already_patched])

Applied(p, only) ==
    apply_patches(WantedNames(p, only),
                  [new_content |-> Decode(data[p]), any_applied |-> FALSE,
                   any_already |-> FALSE, unknown |-> << >>])

CurApplied == Applied(CurPath, run.only_patches)

\* report.errors after the "Unknown patch" errors of the current target.
ErrorsWithUnknown ==
    report.errors \o [j \in 1..Len(CurApplied.unknown) |->
                         <<CurPath, "Unknown patch">>]

\* The next position after a target: the next target, or the post-pass.
AfterTarget == IF run.idx + 1 > Len(run.targets) THEN "hashsync" ELSE "target"

AtTarget == pc = "target" /\ run.op = "patch" /\ run.idx <= Len(run.targets)

\* The history after a target was handled without being read, and after
\* it was read, with its outcome.
Seen(p, o) == [hist EXCEPT !.outcome[p] = o]

ReadAs(p, o) == [hist EXCEPT !.reads = @ \cup {p}, !.outcome[p] = o]

\* The history after the engine wrote bytes to p.
Wrote(h, p) == [h EXCEPT !.reads = @ \cup {p}, !.engine = @ \cup {p}]

\* path.stat() raises while the cache is consulted.
PT_StatFails ==
    /\ AtTarget
    /\ run.cache_data.some
    /\ faults < MaxFaults
    /\ faults' = faults + 1
    /\ report' = [report EXCEPT !.errors = Append(@, <<CurPath, "stat failed">>)]
    /\ run' = [run EXCEPT !.idx = @ + 1]
    /\ pc' = AfterTarget
    /\ hist' = Seen(CurPath, "error")
    /\ UNCHANGED <<fsVars, signed, ops, unitVars>>

\* A variant that counts a file skipped on a cache hit as scanned too.
PT_CacheHit_scanned ==
    /\ AtTarget
    /\ CacheHit
    /\ LET cached == run.cache_data.files[CurKey]
       IN  /\ report' = [report EXCEPT
                 !.skipped_cached = @ + 1,
                 !.scanned = @ + 1,
                 !.already_patched =
                     IF cached.status = STATUS_PATCHED THEN @ + 1 ELSE @,
                 !.skipped_not_applicable =
                     IF cached.status = STATUS_NOT_APPLICABLE THEN @ + 1 ELSE @]
           /\ run' = [run EXCEPT
                 !.idx = @ + 1,
                 !.new_cache = IF @.some
                               THEN [@ EXCEPT !.files[CurKey] = cached] ELSE @]
    /\ pc' = AfterTarget
    /\ hist' = Seen(CurPath, "cached")
    /\ UNCHANGED <<fsVars, signed, faults, ops, unitVars>>

\* A cache hit: the cached status is counted and carried forward.
PT_CacheHit ==
    /\ AtTarget
    /\ CacheHit
    /\ LET cached == run.cache_data.files[CurKey]
       IN  /\ report' = [report EXCEPT
                 !.skipped_cached = @ + 1,
                 !.already_patched =
                     IF cached.status = STATUS_PATCHED THEN @ + 1 ELSE @,
                 !.skipped_not_applicable =
                     IF cached.status = STATUS_NOT_APPLICABLE THEN @ + 1 ELSE @]
           /\ run' = [run EXCEPT
                 !.idx = @ + 1,
                 !.new_cache = IF @.some
                               THEN [@ EXCEPT !.files[CurKey] = cached] ELSE @]
    /\ pc' = AfterTarget
    /\ hist' = Seen(CurPath, "cached")
    /\ UNCHANGED <<fsVars, signed, faults, ops, unitVars>>

\* path.read_bytes() raises.
PT_ReadFails ==
    /\ AtTarget
    /\ ~CacheHit
    /\ faults < MaxFaults
    /\ faults' = faults + 1
    /\ report' = [report EXCEPT
          !.scanned = @ + 1,
          !.errors = Append(@, <<CurPath, "read failed">>)]
    /\ run' = [run EXCEPT !.idx = @ + 1]
    /\ pc' = AfterTarget
    /\ hist' = Seen(CurPath, "error")
    /\ UNCHANGED <<fsVars, signed, ops, unitVars>>

\* No patch applied: the file is counted and its status cached.
PT_NotApplied ==
    /\ AtTarget
    /\ ~CacheHit
    /\ ~CurApplied.any_applied
    /\ LET status == IF CurApplied.any_already THEN STATUS_PATCHED
                     ELSE STATUS_NOT_APPLICABLE
       IN  /\ report' = [report EXCEPT
                 !.scanned = @ + 1,
                 !.errors = ErrorsWithUnknown,
                 !.already_patched = IF CurApplied.any_already THEN @ + 1 ELSE @,
                 !.skipped_not_applicable =
                     IF CurApplied.any_already THEN @ ELSE @ + 1]
           /\ run' = [run EXCEPT
                 !.idx = @ + 1,
                 !.new_cache =
                     IF @.some
                     THEN [@ EXCEPT !.files[CurKey] =
                              make_cache_entry(status, Stat(CurPath))]
                     ELSE @]
    /\ hist' = ReadAs(CurPath, IF CurApplied.any_already THEN "already"
                                  ELSE "not_applicable")
    /\ pc' = AfterTarget
    /\ UNCHANGED <<fsVars, signed, faults, ops, unitVars>>

\* A dry run: the file is listed and nothing is written.
PT_DryRun ==
    /\ AtTarget
    /\ ~CacheHit
    /\ CurApplied.any_applied
    /\ run.dry_run
    /\ report' = [report EXCEPT
          !.scanned = @ + 1,
          !.errors = ErrorsWithUnknown,
          !.patched = Append(@, CurPath)]
    /\ run' = [run EXCEPT !.idx = @ + 1]
    /\ hist' = ReadAs(CurPath, "patched")
    /\ pc' = AfterTarget
    /\ UNCHANGED <<fsVars, signed, faults, ops, unitVars>>

\* A variant that writes in a dry run too.
WillWrite_dry == AtTarget /\ ~CacheHit /\ CurApplied.any_applied

\* The guard of the write path of _patch_target.
WillWrite == AtTarget /\ ~CacheHit /\ CurApplied.any_applied /\ ~run.dry_run

\* create_backup returns None: the file is not touched.
PT_BackupFails ==
    /\ WillWrite
    /\ ~has_backup(CurPath)
    /\ faults < MaxFaults
    /\ faults' = faults + 1
    /\ \E torn \in BOOLEAN :
          /\ bakPresent' = IF torn THEN bakPresent \cup {CurPath} ELSE bakPresent
          /\ bakData' = IF torn THEN [bakData EXCEPT ![CurPath] = Torn]
                        ELSE bakData
    /\ report' = [report EXCEPT
          !.scanned = @ + 1,
          !.errors = Append(ErrorsWithUnknown, <<CurPath, "backup failed">>)]
    /\ run' = [run EXCEPT !.idx = @ + 1]
    /\ hist' = ReadAs(CurPath, "error")
    /\ pc' = AfterTarget
    /\ UNCHANGED <<present, data, mtime, cache, signed, ops, unitVars>>

\* The sidecar of p as the backup store sees it.
Sidecar(p) == [exists |-> has_backup(p), bytes |-> bakData[p]]

\* A variant in which the sidecar is not made.
BakPresentAfterCreate_none(p) == bakPresent

\* create_backup(path) that does not fail, on the engine's files.
BakPresentAfterCreate(p) == bakPresent \cup {p}

BakDataAfterCreate(p) ==
    [bakData EXCEPT ![p] = create_backup(data[p], Sidecar(p)).bytes]

\* path.write_bytes raises: the file is left as it was, or torn.
PT_WriteFails ==
    /\ WillWrite
    /\ faults < MaxFaults
    /\ faults' = faults + 1
    /\ bakPresent' = BakPresentAfterCreate(CurPath)
    /\ bakData' = BakDataAfterCreate(CurPath)
    /\ \E torn \in BOOLEAN :
          /\ data' = IF torn THEN [data EXCEPT ![CurPath] = Torn] ELSE data
          /\ mtime' = IF torn THEN [mtime EXCEPT ![CurPath] = @ + 1] ELSE mtime
          /\ hist' = IF torn THEN Wrote(ReadAs(CurPath, "error"), CurPath)
                     ELSE ReadAs(CurPath, "error")
    /\ report' = [report EXCEPT
          !.scanned = @ + 1,
          !.errors = Append(ErrorsWithUnknown, <<CurPath, "write failed">>)]
    /\ run' = [run EXCEPT !.idx = @ + 1]
    /\ pc' = AfterTarget
    /\ UNCHANGED <<present, cache, signed, ops, unitVars>>

\* The patched bytes are written after the backup was made.
PT_Write ==
    /\ WillWrite
    /\ LET new_bytes == Encode(CurApplied.new_content)
           old_hash == Sha256Hex(data[CurPath])
           new_hash == Sha256Hex(new_bytes)
           st_after == [mtime_ns |-> mtime[CurPath] + 1,
                        size |-> TextLen(new_bytes)]
       IN  /\ bakPresent' = BakPresentAfterCreate(CurPath)
           /\ bakData' = BakDataAfterCreate(CurPath)
           /\ data' = [data EXCEPT ![CurPath] = new_bytes]
           /\ mtime' = [mtime EXCEPT ![CurPath] = @ + 1]
           /\ report' = [report EXCEPT
                 !.scanned = @ + 1,
                 !.errors = ErrorsWithUnknown,
                 !.patched = Append(@, CurPath)]
           /\ run' = [run EXCEPT
                 !.idx = @ + 1,
                 !.hash_pairs = Append(@, <<old_hash, new_hash>>),
                 !.new_cache =
                     IF @.some
                     THEN [@ EXCEPT !.files[CurKey] =
                              make_cache_entry(STATUS_PATCHED, st_after)]
                     ELSE @]
    /\ hist' = Wrote(ReadAs(CurPath, "patched"), CurPath)
    /\ pc' = AfterTarget
    /\ UNCHANGED <<present, cache, signed, faults, ops, unitVars>>

(***************************************************************************)
(* patching.py: _update_extension_host_hashes                              *)
(***************************************************************************)
\* A variant that replaces nothing.
Replace_none(content, old, new) == content

\* str.replace(old, new) on the loader text: every occurrence of the literal.
Replace(content, old, new) ==
    [j \in 1..Len(content) |-> IF content[j] = old THEN new ELSE content[j]]

RECURSIVE replace_pairs(_, _)
\* for old_hash, new_hash in hash_pairs: content = content.replace(...)
replace_pairs(content, pairs) ==
    IF pairs = << >> THEN content
    ELSE replace_pairs(Replace(content, Head(pairs)[1], Head(pairs)[2]),
                       Tail(pairs))

ExtHost == _EXT_HOST_RELPATH(run.inst)

NewLoader == replace_pairs(Decode(data[ExtHost]), run.hash_pairs)

AtHashSync == pc = "hashsync" /\ run.op = "patch"

\* A variant that rewrites the loader whether or not a hash was replaced.
LoaderChanges_always ==
    /\ run.hash_pairs # << >>
    /\ ExtHost \in present

\* The loader has to be rewritten: there are pairs, the loader is a file and
\* the replacement changed its text.
LoaderChanges ==
    /\ run.hash_pairs # << >>
    /\ ExtHost \in present
    /\ NewLoader # Decode(data[ExtHost])

\* No pairs, no loader file or no hash replaced: nothing is touched.
HS_Skip ==
    /\ AtHashSync
    /\ ~LoaderChanges
    /\ pc' = "checksum"
    /\ hist' = IF run.hash_pairs # << >> /\ ExtHost \in present
               THEN [hist EXCEPT !.reads = @ \cup {ExtHost}] ELSE hist
    /\ UNCHANGED <<fsVars, signed, run, report, faults, ops, unitVars>>

\* ext_host.read_bytes() raises.
HS_ReadFails ==
    /\ AtHashSync
    /\ run.hash_pairs # << >>
    /\ ExtHost \in present
    /\ faults < MaxFaults
    /\ faults' = faults + 1
    /\ report' = [report EXCEPT !.errors = Append(@, <<ExtHost, "read failed">>)]
    /\ pc' = "checksum"
    /\ UNCHANGED <<fsVars, signed, run, ops, hist, unitVars>>

HS_BackupFails ==
    /\ AtHashSync
    /\ LoaderChanges
    /\ ~has_backup(ExtHost)
    /\ faults < MaxFaults
    /\ faults' = faults + 1
    /\ \E torn \in BOOLEAN :
          /\ bakPresent' = IF torn THEN bakPresent \cup {ExtHost} ELSE bakPresent
          /\ bakData' = IF torn THEN [bakData EXCEPT ![ExtHost] = Torn]
                        ELSE bakData
    /\ report' = [report EXCEPT !.errors = Append(@, <<ExtHost, "backup failed">>)]
    /\ pc' = "checksum"
    /\ hist' = [hist EXCEPT !.reads = @ \cup {ExtHost}]
    /\ UNCHANGED <<present, data, mtime, cache, signed, run, ops, unitVars>>

HS_WriteFails ==
    /\ AtHashSync
    /\ LoaderChanges
    /\ faults < MaxFaults
    /\ faults' = faults + 1
    /\ bakPresent' = BakPresentAfterCreate(ExtHost)
    /\ bakData' = BakDataAfterCreate(ExtHost)
    /\ \E torn \in BOOLEAN :
          /\ data' = IF torn THEN [data EXCEPT ![ExtHost] = Torn] ELSE data
          /\ mtime' = IF torn THEN [mtime EXCEPT ![ExtHost] = @ + 1] ELSE mtime
          /\ hist' = IF torn THEN Wrote(hist, ExtHost)
                     ELSE [hist EXCEPT !.reads = @ \cup {ExtHost}]
    /\ report' = [report EXCEPT !.errors = Append(@, <<ExtHost, "write failed">>)]
    /\ pc' = "checksum"
    /\ UNCHANGED <<present, cache, signed, run, ops, unitVars>>

HS_Write ==
    /\ AtHashSync
    /\ LoaderChanges
    /\ bakPresent' = BakPresentAfterCreate(ExtHost)
    /\ bakData' = BakDataAfterCreate(ExtHost)
    /\ data' = [data EXCEPT ![ExtHost] = Encode(NewLoader)]
    /\ mtime' = [mtime EXCEPT ![ExtHost] = @ + 1]
    /\ run' = [run EXCEPT !.ext_host_modified = TRUE]
    /\ pc' = "checksum"
    /\ hist' = Wrote(hist, ExtHost)
    /\ UNCHANGED <<present, cache, signed, report, faults, ops, unitVars>>

(***************************************************************************)
(* patching.py: _update_product_json_checksums                             *)
(***************************************************************************)
Product == product_json(run.inst)

\* report.patched[patched_before:]
NewlyPatched ==
    SubSeq(report.patched, run.patched_before + 1, Len(report.patched))

\* A variant that leaves the rewritten loader out.
OutFiles_patched == SelectSeq(NewlyPatched, UnderOut)

\* The files handed to _update_product_json_checksums.
OutFiles ==
    LET under == SelectSeq(NewlyPatched, UnderOut)
    IN  IF run.ext_host_modified
           /\ ~\E j \in 1..Len(under) : under[j] = ExtHost
        THEN Append(under, ExtHost) ELSE under

\* data.get("checksums"): the keys of the table.
ChecksumKeys(json) == {json[j].p : j \in {m \in 1..Len(json) : json[m].t = "chk"}}

\* The table after the loop over modified_files, read from the files on disk.
UpdatedChecksums(json, files) ==
    [j \in 1..Len(json) |->
        IF /\ json[j].t = "chk"
           /\ \E m \in 1..Len(files) : RelToOut(files[m]) = json[j].p
        THEN Checksum(json[j].p,
                      data[CHOOSE f \in {files[m] : m \in 1..Len(files)} :
                              RelToOut(f) = json[j].p])
        ELSE json[j]]

\* json.dumps(data, separators=(",", ":")): the compact form of the object.
CompactJson(json) ==
    [j \in 1..Len(json) |->
        IF json[j].t = "json" THEN [json[j] EXCEPT !.p = "compact"] ELSE json[j]]

AtChecksum == pc = "checksum" /\ run.op = "patch"

\* The manifest is read: the run is not dry and files under out/ changed.
ManifestRead == ~run.dry_run /\ OutFiles # << >> /\ Product \in present

\* json.loads(raw.decode("utf-8")) returns: the text is a JSON document.
JsonParses(bytes) == Has(bytes, {"json"})

\* A variant that rewrites the manifest whenever it is read.
ManifestUpdated_always == ManifestRead /\ JsonParses(data[Product])

\* An entry of the table is recomputed.
ManifestUpdated ==
    /\ ManifestRead
    /\ JsonParses(data[Product])
    /\ \E m \in 1..Len(OutFiles) :
          RelToOut(OutFiles[m]) \in ChecksumKeys(data[Product])

\* Nothing to do: dry run, no file under out/, no manifest, no table or no
\* entry for the files.
CS_Skip ==
    /\ AtChecksum
    /\ ~ManifestUpdated
    /\ ManifestRead => JsonParses(data[Product])
    /\ pc' = "finish"
    /\ hist' = IF ManifestRead
               THEN [hist EXCEPT !.reads = @ \cup {Product}] ELSE hist
    /\ UNCHANGED <<fsVars, signed, run, report, faults, ops, unitVars>>

\* json.loads raises on a manifest that is not JSON (a half-written one).
CS_ParseFails ==
    /\ AtChecksum
    /\ ManifestRead
    /\ ~JsonParses(data[Product])
    /\ report' = [report EXCEPT !.errors = Append(@, <<Product, "read failed">>)]
    /\ pc' = "finish"
    /\ hist' = [hist EXCEPT !.reads = @ \cup {Product}]
    /\ UNCHANGED <<fsVars, signed, run, faults, ops, unitVars>>

\* product_json.read_bytes() raises.
CS_ReadFails ==
    /\ AtChecksum
    /\ ManifestRead
    /\ faults < MaxFaults
    /\ faults' = faults + 1
    /\ report' = [report EXCEPT !.errors = Append(@, <<Product, "read failed">>)]
    /\ pc' = "finish"
    /\ UNCHANGED <<fsVars, signed, run, ops, hist, unitVars>>

CS_BackupFails ==
    /\ AtChecksum
    /\ ManifestUpdated
    /\ ~has_backup(Product)
    /\ faults < MaxFaults
    /\ faults' = faults + 1
    /\ \E torn \in BOOLEAN :
          /\ bakPresent' = IF torn THEN bakPresent \cup {Product} ELSE bakPresent
          /\ bakData' = IF torn THEN [bakData EXCEPT ![Product] = Torn]
                        ELSE bakData
    /\ report' = [report EXCEPT !.errors = Append(@, <<Product, "backup failed">>)]
    /\ pc' = "finish"
    /\ hist' = [hist EXCEPT !.reads = @ \cup {Product}]
    /\ UNCHANGED <<present, data, mtime, cache, signed, run, ops, unitVars>>

CS_WriteFails ==
    /\ AtChecksum
    /\ ManifestUpdated
    /\ faults < MaxFaults
    /\ faults' = faults + 1
    /\ bakPresent' = BakPresentAfterCreate(Product)
    /\ bakData' = BakDataAfterCreate(Product)
    /\ \E torn \in BOOLEAN :
          /\ data' = IF torn THEN [data EXCEPT ![Product] = Torn] ELSE data
          /\ mtime' = IF torn THEN [mtime EXCEPT ![Product] = @ + 1] ELSE mtime
          /\ hist' = IF torn THEN Wrote(hist, Product)
                     ELSE [hist EXCEPT !.reads = @ \cup {Product}]
    /\ report' = [report EXCEPT !.errors = Append(@, <<Product, "write failed">>)]
    /\ pc' = "finish"
    /\ UNCHANGED <<present, cache, signed, run, ops, unitVars>>

CS_Write ==
    /\ AtChecksum
    /\ ManifestUpdated
    /\ bakPresent' = BakPresentAfterCreate(Product)
    /\ bakData' = BakDataAfterCreate(Product)
    /\ data' = [data EXCEPT ![Product] =
                   CompactJson(UpdatedChecksums(data[Product], OutFiles))]
    /\ mtime' = [mtime EXCEPT ![Product] = @ + 1]
    /\ pc' = "finish"
    /\ hist' = Wrote(hist, Product)
    /\ UNCHANGED <<present, cache, signed, run, report, faults, ops, unitVars>>

(***************************************************************************)
(* patching.py: the tail of _patch_installation, rollback and cache save   *)
(***************************************************************************)
RECURSIVE Dedup(_, _)
\* The iteration of _rollback_installation_changes skips the paths it saw.
Dedup(seq, seen) ==
    IF seq = << >> THEN << >>
    ELSE IF Head(seq) \in seen THEN Dedup(Tail(seq), seen)
    ELSE <<Head(seq)>> \o Dedup(Tail(seq), seen \cup {Head(seq)})

\* restore_paths, without repetitions, that have a backup.
RollbackPaths ==
    SelectSeq(Dedup(NewlyPatched \o <<ExtHost, Product>>, {}), has_backup)

RollbackSet == {RollbackPaths[j] : j \in 1..Len(RollbackPaths)}

\* A variant that rolls back on every new error, patched file or not.
NeedRollback_any ==
    /\ ~run.dry_run
    /\ Len(report.errors) > run.errors_before_install

\* if not dry_run and len(report.errors) > errors_before_install
\*    and len(report.patched) > patched_before
NeedRollback ==
    /\ ~run.dry_run
    /\ Len(report.errors) > run.errors_before_install
    /\ Len(report.patched) > run.patched_before

\* A variant that saves the snapshot whatever errors were recorded.
WillSave_always == run.new_cache.some

\* if new_cache is not None and len(report.errors) == errors_before_install
WillSave ==
    /\ run.new_cache.some
    /\ Len(report.errors) = run.errors_before_install

AtFinish == pc = "finish" /\ run.op = "patch"

\* restore_backup(p) for every p of ps: the file gets the sidecar's bytes.
DataRestored(ps) ==
    [p \in Paths |-> IF p \in ps THEN restore_backup(data[p], Sidecar(p)).bytes
                     ELSE data[p]]

MtimeRestored(ps) == [p \in Paths |-> IF p \in ps THEN mtime[p] + 1 ELSE mtime[p]]

\* _rollback_installation_changes: the restores of failed fail (leaving the
\* file as it is, or torn), the others succeed.
FinishRollback ==
    /\ AtFinish
    /\ NeedRollback
    /\ \E failed \in SUBSET RollbackSet, torn \in BOOLEAN :
          /\ Cardinality(failed) <= MaxFaults - faults
          /\ failed = {} => ~torn
          /\ faults' = faults + Cardinality(failed)
          /\ data' = [p \in Paths |->
                        IF p \in failed
                        THEN (IF torn THEN Torn ELSE data[p])
                        ELSE DataRestored(RollbackSet)[p]]
          /\ mtime' = [p \in Paths |->
                        IF p \in failed
                        THEN (IF torn THEN mtime[p] + 1 ELSE mtime[p])
                        ELSE MtimeRestored(RollbackSet)[p]]
          /\ present' = present \cup (RollbackSet \ failed)
          /\ hist' = [hist EXCEPT !.engine = @ \ (RollbackSet \ failed)]
          /\ report' = [report EXCEPT
                !.errors = @ \o
                    [j \in 1..Len(SelectSeq(RollbackPaths,
                                            LAMBDA p : p \in failed)) |->
                        <<SelectSeq(RollbackPaths, LAMBDA p : p \in failed)[j],
                          "rollback restore failed">>],
                !.patched = SubSeq(@, 1, run.patched_before)]
    /\ cache' = [cache EXCEPT ![run.inst] = NoCacheFile]
    /\ run' = [run EXCEPT !.rolled_back = TRUE]
    /\ pc' = "sign"
    /\ UNCHANGED <<bakPresent, bakData, signed, ops, unitVars>>

\* The new snapshot is persisted.
FinishSave ==
    /\ AtFinish
    /\ ~NeedRollback
    /\ WillSave
    /\ cache' = [cache EXCEPT ![run.inst] = save_cache(run.new_cache.files)]
    /\ pc' = "sign"
    /\ UNCHANGED <<present, data, mtime, bakPresent, bakData, signed, run,
                   report, faults, ops, hist, unitVars>>

\* save_cache raises: the exception is swallowed, the old file stays.
FinishSaveFails ==
    /\ AtFinish
    /\ ~NeedRollback
    /\ WillSave
    /\ faults < MaxFaults
    /\ faults' = faults + 1
    /\ pc' = "sign"
    /\ UNCHANGED <<fsVars, signed, run, report, ops, hist, unitVars>>

\* A dry run, or errors without a patched file: nothing is saved.
FinishNoSave ==
    /\ AtFinish
    /\ ~NeedRollback
    /\ ~WillSave
    /\ pc' = "sign"
    /\ UNCHANGED <<fsVars, signed, run, report, faults, ops, hist, unitVars>>

\* A variant that also re-signs an installation that was rolled back.
WillSign_rolled ==
    /\ ~run.dry_run
    /\ Len(report.patched) > run.patched_before \/ run.rolled_back
    /\ signed[run.inst]

\* patch(): if not dry_run and patched_after > patched_before:
\*              if needs_codesign(inst.root, inst.kind): codesign_app(...)
WillSign ==
    /\ ~run.dry_run
    /\ Len(report.patched) > run.patched_before
    /\ signed[run.inst]

\* A variant that records a failed re-signing as an error of the report.
SignInvoke_error ==
    /\ pc = "sign"
    /\ run.op = "patch"
    /\ WillSign
    /\ \E success \in BOOLEAN :
          report' = [report EXCEPT
              !.codesign = Append(@, [inst |-> run.inst, success |-> success]),
              !.errors = IF success THEN @
                         ELSE Append(@, <<product_json(run.inst), "codesign failed">>)]
    /\ pc' = "inst"
    /\ UNCHANGED <<fsVars, signed, run, faults, ops, hist, unitVars>>

SignInvoke ==
    /\ pc = "sign"
    /\ run.op = "patch"
    /\ WillSign
    /\ \E success \in BOOLEAN :
          report' = [report EXCEPT
              !.codesign = Append(@, [inst |-> run.inst, success |-> success])]
    /\ pc' = "inst"
    /\ UNCHANGED <<fsVars, signed, run, faults, ops, hist, unitVars>>

SignSkip ==
    /\ pc = "sign"
    /\ run.op = "patch"
    /\ ~WillSign
    /\ pc' = "inst"
    /\ UNCHANGED <<fsVars, signed, run, report, faults, ops, hist, unitVars>>

\* The loop over the installations is over: the report is returned.
EndRun ==
    /\ pc = "inst"
    /\ run.queue = << >>
    /\ pc' = "done"
    /\ UNCHANGED <<fsVars, signed, run, report, faults, ops, hist, unitVars>>

\* What the history keeps of the operation that returns: of a patch run
\* that was not dry, its arguments, its result, the bytes and sidecars it
\* started from and the stat values it left.
LastOf ==
    IF run.op = "patch" /\ ~run.dry_run
    THEN [op |-> run.op, dry_run |-> run.dry_run,
          only_patches |-> run.only_patches, insts |-> run.insts,
          clean |-> faults = hist.faults0, ok |-> ReportOk(report),
          patched |-> {report.patched[j] : j \in 1..Len(report.patched)},
          pre |-> hist.pre, preBak |-> hist.preBak,
          end |-> [p \in Paths |-> Stat(p)]]
    ELSE IF run.op = "unpatch" /\ ~run.dry_run
    THEN [NoLast EXCEPT
             !.op = run.op, !.insts = run.insts,
             !.clean = faults = hist.faults0,
             !.restored = {report.restored[j] : j \in 1..Len(report.restored)}]
    ELSE [NoLast EXCEPT !.op = run.op, !.dry_run = run.dry_run]

\* The caller is done with the report.
Return ==
    /\ pc = "done"
    /\ pc' = "idle"
    /\ run' = RunIdle
    /\ report' = Report0
    /\ hist' = [Hist0 EXCEPT !.engine = hist.engine, !.last = LastOf]
    /\ UNCHANGED <<fsVars, signed, faults, ops, unitVars>>

(***************************************************************************)
(* patching.py: unpatch()                                                  *)
(***************************************************************************)
StartUnpatch ==
    /\ pc = "idle"
    /\ ops.runs < MaxOps
    /\ \E d \in BOOLEAN, q \in InstLists :
          run' = [RunIdle EXCEPT !.op = "unpatch", !.dry_run = d,
                                 !.insts = q, !.queue = q]
    /\ report' = Report0
    /\ pc' = "inst"
    /\ ops' = [ops EXCEPT !.runs = @ + 1]
    /\ hist' = HistStart
    /\ UNCHANGED <<fsVars, signed, faults, unitVars>>

BeginUnpatchInstallation ==
    /\ pc = "inst"
    /\ run.op = "unpatch"
    /\ run.queue # << >>
    /\ LET i == Head(run.queue)
           targets == target_files(i)
       IN  /\ run' = [run EXCEPT
                 !.queue = Tail(run.queue),
                 !.inst = i,
                 !.targets = targets,
                 !.idx = 1,
                 !.restored_before = Len(report.restored)]
           /\ pc' = IF targets = << >> THEN "aux" ELSE "target"
    /\ UNCHANGED <<fsVars, signed, report, faults, ops, hist, unitVars>>

AtUnpatchTarget ==
    pc = "target" /\ run.op = "unpatch" /\ run.idx <= Len(run.targets)

\* After the last target the two auxiliary files follow.
AfterUnpatchTarget == IF run.idx + 1 > Len(run.targets) THEN "aux" ELSE "target"

NextUnpatchTarget ==
    [run EXCEPT !.idx = IF run.idx + 1 > Len(run.targets) THEN 1 ELSE @ + 1]

\* A variant that lists a target without a backup as restored.
UT_NoBackup_restored ==
    /\ AtUnpatchTarget
    /\ ~has_backup(CurPath)
    /\ report' = [report EXCEPT !.restored = Append(@, CurPath)]
    /\ run' = NextUnpatchTarget
    /\ pc' = AfterUnpatchTarget
    /\ UNCHANGED <<fsVars, signed, faults, ops, hist, unitVars>>

UT_NoBackup ==
    /\ AtUnpatchTarget
    /\ ~has_backup(CurPath)
    /\ report' = [report EXCEPT !.no_backup = Append(@, CurPath)]
    /\ run' = NextUnpatchTarget
    /\ pc' = AfterUnpatchTarget
    /\ UNCHANGED <<fsVars, signed, faults, ops, hist, unitVars>>

\* A variant that removes the backup of a target in a dry run.
UT_DryRun_removing ==
    /\ AtUnpatchTarget
    /\ has_backup(CurPath)
    /\ run.dry_run
    /\ bakPresent' = bakPresent \ {CurPath}
    /\ report' = [report EXCEPT !.restored = Append(@, CurPath)]
    /\ run' = NextUnpatchTarget
    /\ pc' = AfterUnpatchTarget
    /\ UNCHANGED <<present, data, mtime, bakData, cache, signed, faults, ops,
                   hist, unitVars>>

UT_DryRun ==
    /\ AtUnpatchTarget
    /\ has_backup(CurPath)
    /\ run.dry_run
    /\ report' = [report EXCEPT !.restored = Append(@, CurPath)]
    /\ run' = NextUnpatchTarget
    /\ pc' = AfterUnpatchTarget
    /\ UNCHANGED <<fsVars, signed, faults, ops, hist, unitVars>>

\* A variant that leaves the cache file of the installation in place.
UT_Restore_keeping ==
    /\ AtUnpatchTarget
    /\ has_backup(CurPath)
    /\ ~run.dry_run
    /\ data' = DataRestored({CurPath})
    /\ mtime' = MtimeRestored({CurPath})
    /\ present' = present \cup {CurPath}
    /\ bakPresent' = bakPresent \ {CurPath}
    /\ report' = [report EXCEPT !.restored = Append(@, CurPath)]
    /\ run' = NextUnpatchTarget
    /\ pc' = AfterUnpatchTarget
    /\ hist' = [hist EXCEPT !.engine = @ \ {CurPath}]
    /\ UNCHANGED <<bakData, cache, signed, faults, ops, unitVars>>

\* restore_backup succeeded: the backup is removed and the cache deleted.
UT_Restore ==
    /\ AtUnpatchTarget
    /\ has_backup(CurPath)
    /\ ~run.dry_run
    /\ data' = DataRestored({CurPath})
    /\ mtime' = MtimeRestored({CurPath})
    /\ present' = present \cup {CurPath}
    /\ bakPresent' = bakPresent \ {CurPath}
    /\ cache' = [cache EXCEPT ![run.inst] = NoCacheFile]
    /\ report' = [report EXCEPT !.restored = Append(@, CurPath)]
    /\ run' = NextUnpatchTarget
    /\ pc' = AfterUnpatchTarget
    /\ hist' = [hist EXCEPT !.engine = @ \ {CurPath}]
    /\ UNCHANGED <<bakData, signed, faults, ops, unitVars>>

\* restore_backup returns False (an I/O failure): the backup is kept.
UT_RestoreFails ==
    /\ AtUnpatchTarget
    /\ has_backup(CurPath)
    /\ ~run.dry_run
    /\ faults < MaxFaults
    /\ faults' = faults + 1
    /\ \E torn \in BOOLEAN :
          /\ data' = IF torn THEN [data EXCEPT ![CurPath] = Torn] ELSE data
          /\ mtime' = IF torn THEN [mtime EXCEPT ![CurPath] = @ + 1] ELSE mtime
    /\ report' = [report EXCEPT !.errors = Append(@, <<CurPath, "restore failed">>)]
    /\ run' = NextUnpatchTarget
    /\ pc' = AfterUnpatchTarget
    /\ UNCHANGED <<present, bakPresent, bakData, cache, signed, ops, hist,
                   unitVars>>

\* for aux_path in (inst.root / _EXT_HOST_RELPATH, inst.root / "product.json")
AuxPaths == <<ExtHost, Product>>

AtAux == pc = "aux" /\ run.op = "unpatch" /\ run.idx <= Len(AuxPaths)

AuxPath == AuxPaths[run.idx]

AfterAux == IF run.idx + 1 > Len(AuxPaths) THEN "sign" ELSE "aux"

UA_NoBackup ==
    /\ AtAux
    /\ ~has_backup(AuxPath)
    /\ run' = [run EXCEPT !.idx = @ + 1]
    /\ pc' = AfterAux
    /\ UNCHANGED <<fsVars, signed, report, faults, ops, hist, unitVars>>

UA_DryRun ==
    /\ AtAux
    /\ has_backup(AuxPath)
    /\ run.dry_run
    /\ report' = [report EXCEPT !.restored = Append(@, AuxPath)]
    /\ run' = [run EXCEPT !.idx = @ + 1]
    /\ pc' = AfterAux
    /\ UNCHANGED <<fsVars, signed, faults, ops, hist, unitVars>>

UA_Restore ==
    /\ AtAux
    /\ has_backup(AuxPath)
    /\ ~run.dry_run
    /\ data' = DataRestored({AuxPath})
    /\ mtime' = MtimeRestored({AuxPath})
    /\ present' = present \cup {AuxPath}
    /\ bakPresent' = bakPresent \ {AuxPath}
    /\ report' = [report EXCEPT !.restored = Append(@, AuxPath)]
    /\ run' = [run EXCEPT !.idx = @ + 1]
    /\ pc' = AfterAux
    /\ hist' = [hist EXCEPT !.engine = @ \ {AuxPath}]
    /\ UNCHANGED <<bakData, cache, signed, faults, ops, unitVars>>

UA_RestoreFails ==
    /\ AtAux
    /\ has_backup(AuxPath)
    /\ ~run.dry_run
    /\ faults < MaxFaults
    /\ faults' = faults + 1
    /\ \E torn \in BOOLEAN :
          /\ data' = IF torn THEN [data EXCEPT ![AuxPath] = Torn] ELSE data
          /\ mtime' = IF torn THEN [mtime EXCEPT ![AuxPath] = @ + 1] ELSE mtime
    /\ report' = [report EXCEPT !.errors = Append(@, <<AuxPath, "restore failed">>)]
    /\ run' = [run EXCEPT !.idx = @ + 1]
    /\ pc' = AfterAux
    /\ UNCHANGED <<present, bakPresent, bakData, cache, signed, ops, hist,
                   unitVars>>

\* unpatch(): if not dry_run and restored_after > restored_before: ...
WillSignUnpatch ==
    /\ ~run.dry_run
    /\ Len(report.restored) > run.restored_before
    /\ signed[run.inst]

UnpatchSignInvoke ==
    /\ pc = "sign"
    /\ run.op = "unpatch"
    /\ WillSignUnpatch
    /\ \E success \in BOOLEAN :
          report' = [report EXCEPT
              !.codesign = Append(@, [inst |-> run.inst, success |-> success])]
    /\ pc' = "inst"
    /\ UNCHANGED <<fsVars, signed, run, faults, ops, hist, unitVars>>

UnpatchSignSkip ==
    /\ pc = "sign"
    /\ run.op = "unpatch"
    /\ ~WillSignUnpatch
    /\ pc' = "inst"
    /\ UNCHANGED <<fsVars, signed, run, report, faults, ops, hist, unitVars>>

(***************************************************************************)
(* The environment: the contents the installations start with, and the     *)
(* application replacing a target file by another version of it.           *)
(***************************************************************************)
AgentV1 == <<T("ar_impl"), T("ar_call")>>

AgentV2 == <<T("other"), T("ar_call")>>

LocalV1 == <<D("m_avail", "r", "s"), D("m_usable", "r", "s")>>

LocalV2 == <<D("m_usable", "f", "s"), D("m_avail", "r", "t")>>

WbV1 == <<T("wb_def_old"), T("wb_comp_old")>>

Plain == <<T("other")>>

\* A loader that holds the hashes of the two extension bundles and a third.
LoaderRefs(a, l) == <<Sha256Hex(a), Sha256Hex(l), Sha256Hex(Plain)>>

\* The loader of a server installation: it holds the hash of one extension
\* bundle and another.
ServerLoaderRefs(a) == <<Sha256Hex(a), Sha256Hex(Plain)>>

\* product.json without a checksums table, as a server installation has it.
PlainJson == <<D("json", "pretty", "")>>

\* product.json with checksums of the loader, the workbench and another file.
ChecksumJson(ld, w) ==
    <<D("json", "compact", ""), Checksum("loader", ld), Checksum("wb", w),
      Checksum("main", Plain)>>

\* The installations the engine is run on.  Installation 1 is one of a
\* desktop installation (workbench bundle, loader with hashes, checksums), a
\* desktop installation without the workbench bundle, and a server
\* installation (a loader that holds no hash, no checksums); installation 2
\* has one bundle, no loader and no checksums.
Layouts == {"desktop", "nowb", "server"}

EngineInitWith(lay, sign, f, o) ==
    /\    LET w == lay = "desktop"
              chk == lay # "server"
              loader == IF chk THEN LoaderRefs(AgentV1, LocalV1)
                        ELSE ServerLoaderRefs(AgentV1)
          IN  /\ present = {<<1, "agent">>, <<1, "local">>, <<1, "loader">>,
                            <<1, "pj">>, <<2, "agent">>, <<2, "pj">>}
                           \cup (IF w THEN {<<1, "wb">>} ELSE {})
              /\ data = [p \in Paths |->
                            CASE p = <<1, "agent">> -> AgentV1
                              [] p = <<1, "local">> -> LocalV1
                              [] p = <<1, "wb">> -> IF w THEN WbV1 ELSE << >>
                              [] p = <<1, "loader">> -> loader
                              [] p = <<1, "pj">> ->
                                    IF chk THEN ChecksumJson(loader, WbV1)
                                    ELSE PlainJson
                              [] p = <<2, "agent">> -> AgentV1
                              [] p = <<2, "pj">> -> PlainJson
                              [] OTHER -> << >>]
    /\ mtime = [p \in Paths |-> 1]
    /\ bakPresent = {}
    /\ bakData = [p \in Paths |-> << >>]
    /\ cache = [i \in Insts |-> NoCacheFile]
    /\ signed = [i \in Insts |-> i = 1 /\ sign]
    /\ pc = "idle"
    /\ run = RunIdle
    /\ report = Report0
    /\ faults = f
    /\ ops = o
    /\ hist = Hist0

\* Nothing has run, failed or been updated yet.
EngineInitOf(lay, sign) ==
    EngineInitWith(lay, sign, 0, [runs |-> 0, updates |-> 0])

EngineInit == \E lay \in Layouts, sign \in BOOLEAN : EngineInitOf(lay, sign)

\* The engine at rest, while a patch unit or the backup store is exercised.
EngineIdle == EngineInitOf("server", FALSE)

NoStore == [file |-> << >>, side |-> NoSidecar, log |-> << >>]

NoCStore == [entries |-> NoEntries, file |-> NoCacheFile, kind |-> "none",
             done |-> FALSE, result |-> NoneDict]

NoFileStatus == [error |-> FALSE, patched |-> [n \in Units |-> FALSE]]

NoSView == [name |-> "agent", content |-> << >>, readable |-> TRUE,
            written |-> FALSE, done |-> FALSE, fs |-> NoFileStatus]

\* The cache directory at rest: no file and no process.
NoAW == [inode |-> << >>, path |-> 0, tmp |-> 0, w |-> << >>, seen |-> {}]

\* The patch-unit scenario at rest.
PatchUnitIdle ==
    /\ unit = "autorun"
    /\ x = << >>
    /\ y1 = Out(<< >>, PatchResult)
    /\ y2 = Out(<< >>, PatchResult)
    /\ phase = 0

UnitIdle ==
    /\ PatchUnitIdle
    /\ store = NoStore
    /\ cstore = NoCStore
    /\ sview = NoSView
    /\ aw = NoAW

\* The application is updated: the bundles of installation 1 are replaced by
\* their next version, and with them the loader that holds their hashes and
\* the manifest that holds the checksums.  Sidecars and cache stay.
Updated ==
    {p \in present :
        /\ p[1] = 1
        /\ \/ p[2] \in TargetNameSet
           \/ p[2] = "loader" /\ Has(data[p], {"hash"})
           \/ p[2] = "pj" /\ Has(data[p], {"chk"})}

NextVersion(p) ==
    CASE p[2] = "agent" -> AgentV2
      [] p[2] \in {"local", "retrieval", "commits"} -> LocalV2
      [] p[2] = "wb" -> WbV1
      [] p[2] = "loader" ->
            IF data[product_json(p[1])] = PlainJson
            THEN ServerLoaderRefs(AgentV2)
            ELSE LoaderRefs(AgentV2, LocalV2)
      [] p[2] = "pj" -> ChecksumJson(LoaderRefs(AgentV2, LocalV2), WbV1)

EnvUpdate ==
    /\ pc = "idle"
    /\ ops.updates < MaxUpdates
    /\ ops.runs < MaxOps
    /\ data' = [p \in Paths |-> IF p \in Updated THEN NextVersion(p) ELSE data[p]]
    /\ mtime' = [p \in Paths |-> IF p \in Updated THEN mtime[p] + 1 ELSE mtime[p]]
    /\ ops' = [ops EXCEPT !.updates = @ + 1]
    /\ hist' = [hist EXCEPT !.pre = data', !.preMtime = mtime',
                            !.engine = @ \ Updated, !.last = NoLast]
    /\ UNCHANGED <<present, bakPresent, bakData, cache, signed, pc, run,
                   report, faults, unitVars>>

Init == EngineInit /\ UnitIdle

PatchTarget ==
    \/ PT_StatFails \/ PT_CacheHit \/ PT_ReadFails \/ PT_NotApplied
    \/ PT_DryRun \/ PT_BackupFails \/ PT_WriteFails \/ PT_Write

HashSync == HS_Skip \/ HS_ReadFails \/ HS_BackupFails \/ HS_WriteFails \/ HS_Write

ChecksumSync ==
    CS_Skip \/ CS_ParseFails \/ CS_ReadFails \/ CS_BackupFails \/ CS_WriteFails \/ CS_Write

Finish == FinishRollback \/ FinishSave \/ FinishSaveFails \/ FinishNoSave

UnpatchTarget == UT_NoBackup \/ UT_DryRun \/ UT_Restore \/ UT_RestoreFails

UnpatchAux == UA_NoBackup \/ UA_DryRun \/ UA_Restore \/ UA_RestoreFails

Next ==
    \/ StartPatch \/ BeginInstallation \/ PatchTarget \/ HashSync
    \/ ChecksumSync \/ Finish \/ SignInvoke \/ SignSkip
    \/ StartUnpatch \/ BeginUnpatchInstallation \/ UnpatchTarget \/ UnpatchAux
    \/ UnpatchSignInvoke \/ UnpatchSignSkip
    \/ EndRun \/ Return \/ EnvUpdate

Spec == Init /\ [][Next]_vars

(***************************************************************************)
(* A patch unit applied to a content, and again to what it returned.       *)
(***************************************************************************)
\* The text fragments the contents given to a unit are made of.
Alphabet(u) ==
    CASE u = "autorun" ->
            {T("ar_impl"), T("ar_call"), T("ar_name"), T("ar_tss"),
             T("ar_impl_p"), T("ar_call_p"), T("ar_mark"), T("ar_tas"),
             T("other")}
      [] u = "autorun_workbench" ->
            {T("wb_def_old"), T("wb_comp_old"), T("wb_def_new"),
             T("wb_comp_new"), T("wb_def_new_m"), T("wb_comp_new_m"),
             T("wb_mark"), T("other")}
      [] u = "models" ->
            {D(n, q, k) : n \in {"m_usable", "m_avail"}, q \in {"r", "f"},
                          k \in {"s", "t"}}
            \cup {D("m_avail", "g", "s"), D("m_req", "r", ""),
                  D("m_req", "f", ""),
                  D("m_patched", "r", "s"), T("m_stream"), T("m_mark"),
                  T("other")}

Contents(u) == UNION {[1..n -> Alphabet(u)] : n \in 0..MaxLen}

UnitInit ==
    /\ EngineIdle
    /\ unit \in Units
    /\ x \in Contents(unit)
    /\ y1 = Out(<< >>, PatchResult)
    /\ y2 = Out(<< >>, PatchResult)
    /\ phase = 0
    /\ store = NoStore
    /\ cstore = NoCStore
    /\ sview = NoSView
    /\ aw = NoAW

engineVars == <<fsVars, signed, pc, run, report, faults, ops, hist>>

\* new_content, result = p.apply(content)
UnitApply ==
    /\ phase = 0
    /\ y1' = Unit_apply(unit, x)
    /\ phase' = 1
    /\ UNCHANGED <<engineVars, unit, x, y2, store, cstore, sview, aw>>

\* p.apply(new_content)
UnitApplyAgain ==
    /\ phase = 1
    /\ y2' = Unit_apply(unit, y1.content)
    /\ phase' = 2
    /\ UNCHANGED <<engineVars, unit, x, y1, store, cstore, sview, aw>>

NextUnit == UnitApply \/ UnitApplyAgain

SpecUnit == UnitInit /\ [][NextUnit]_vars

(***************************************************************************)
(* The backup store called on one file: create_backup, restore_backup and  *)
(* remove_backup in any order, with writes to the file in between.  Every  *)
(* call is logged with what it returned, the file's bytes before it and    *)
(* the sidecar before and after it.                                        *)
(***************************************************************************)
MaxCalls == 4

StoreFile == "f.js"

StoreContents == {Plain, AgentV1, AgentV2}

StoreInit ==
    /\ EngineIdle
    /\ PatchUnitIdle
    /\ cstore = NoCStore
    /\ sview = NoSView
    /\ aw = NoAW
    /\ \E c \in StoreContents :
          store = [file |-> c, side |-> NoSidecar, log |-> << >>]

\* The store after a call op that returned ret and left file and side.
Logged(op, ret, file, side) ==
    [file |-> file, side |-> side,
     log |-> Append(store.log,
                    [op |-> op, ret |-> ret, file |-> store.file,
                     before |-> store.side, after |-> side])]

Returned(ok, path) == [ok |-> ok, path |-> path]

CanCall == Len(store.log) < MaxCalls

StoreFrame == UNCHANGED <<engineVars, unit, x, y1, y2, phase, cstore, sview, aw>>

\* create_backup(f) returns the backup path.
BK_Create ==
    /\ CanCall
    /\ store' = Logged("create", Returned(TRUE, backup_path(StoreFile)),
                       store.file, create_backup(store.file, store.side))
    /\ StoreFrame

\* create_backup(f) returns None: reading f or writing the sidecar raised;
\* the sidecar is missing or half-written.
BK_CreateFails ==
    /\ CanCall
    /\ ~store.side.exists
    /\ \E torn \in BOOLEAN :
          store' = Logged("create", Returned(FALSE, << >>), store.file,
                          IF torn THEN [exists |-> TRUE, bytes |-> Torn]
                          ELSE store.side)
    /\ StoreFrame

\* f is written by somebody else.
BK_Modify ==
    /\ CanCall
    /\ \E c \in StoreContents \ {store.file} :
          store' = Logged("modify", Returned(TRUE, << >>), c, store.side)
    /\ StoreFrame

\* restore_backup(f)
\* A variant that deletes the sidecar once the file is restored.
BK_Restore_drop ==
    /\ CanCall
    /\ LET r == restore_backup(store.file, store.side)
       IN  store' = Logged("restore", Returned(r.ret, << >>), r.bytes,
                           IF r.ret THEN NoSidecar ELSE store.side)
    /\ StoreFrame

BK_Restore ==
    /\ CanCall
    /\ LET r == restore_backup(store.file, store.side)
       IN  store' = Logged("restore", Returned(r.ret, << >>), r.bytes,
                           store.side)
    /\ StoreFrame

\* restore_backup(f) returns False on an I/O failure.
BK_RestoreFails ==
    /\ CanCall
    /\ store.side.exists
    /\ \E torn \in BOOLEAN :
          store' = Logged("restore", Returned(FALSE, << >>),
                          IF torn THEN Torn ELSE store.file, store.side)
    /\ StoreFrame

\* remove_backup(f)
BK_Remove ==
    /\ CanCall
    /\ LET r == remove_backup(store.side)
       IN  store' = Logged("remove", Returned(r.ret, << >>), store.file, r.side)
    /\ StoreFrame

\* remove_backup(f) returns False: unlink raised.
BK_RemoveFails ==
    /\ CanCall
    /\ store.side.exists
    /\ store' = Logged("remove", Returned(FALSE, << >>), store.file, store.side)
    /\ StoreFrame

NextBackup ==
    \/ BK_Create \/ BK_CreateFails \/ BK_Modify \/ BK_Restore
    \/ BK_RestoreFails \/ BK_Remove \/ BK_RemoveFails

SpecBackup == StoreInit /\ [][NextBackup]_vars

(***************************************************************************)
(* One cache file: save_cache writes it, somebody else may damage or       *)
(* delete it, load_cache reads it.  kind tells how the file came to be.    *)
(***************************************************************************)
CacheKeys == {"agent", "local"}

ValidEntry == make_cache_entry(STATUS_PATCHED, [mtime_ns |-> 1, size |-> 45])

\* The values a files dictionary given to save_cache may hold for a key.
RawEntries ==
    {NoEntry, ValidEntry,
     make_cache_entry(STATUS_NOT_APPLICABLE, [mtime_ns |-> 2, size |-> 29]),
     [ValidEntry EXCEPT !.status = "patched"],
     [ValidEntry EXCEPT !.mtime_is = "float"],
     [ValidEntry EXCEPT !.size_is = "bool"],
     [ValidEntry EXCEPT !.mtime_is = "other"],
     [ValidEntry EXCEPT !.is_dict = FALSE]}

CacheInit ==
    /\ EngineIdle
    /\ PatchUnitIdle
    /\ store = NoStore
    /\ sview = NoSView
    /\ aw = NoAW
    /\ \E a \in RawEntries, l \in RawEntries :
          cstore = [NoCStore EXCEPT
                       !.entries = [n \in TargetNameSet |->
                                       IF n = "agent" THEN a
                                       ELSE IF n = "local" THEN l
                                       ELSE NoEntry]]

CacheFrame == UNCHANGED <<engineVars, unit, x, y1, y2, phase, store, sview, aw>>

\* save_cache(root, entries)
CK_Save ==
    /\ ~cstore.done
    /\ cstore.kind = "none"
    /\ cstore' = [cstore EXCEPT !.file = save_cache(cstore.entries),
                                !.kind = "saved"]
    /\ CacheFrame

\* The file is overwritten with a text that is not JSON, with JSON that is
\* not an object, or with a payload of another version, of another
\* signature, or whose "files" is not a dictionary.
CK_Damage ==
    /\ ~cstore.done
    /\ cstore.kind \in {"none", "saved"}
    /\ \E k \in {"garbage", "array", "version", "signature", "files"} :
       \E v \in {0, _CACHE_VERSION + 1} :
          cstore' = [cstore EXCEPT
             !.kind = k,
             !.file =
                CASE k = "garbage" ->
                        [save_cache(cstore.entries) EXCEPT !.form = "garbage"]
                  [] k = "array" ->
                        [save_cache(cstore.entries) EXCEPT !.form = "array"]
                  [] k = "version" ->
                        [save_cache(cstore.entries) EXCEPT !.version = v]
                  [] k = "signature" ->
                        [save_cache(cstore.entries) EXCEPT
                            !.signature = "cgp_v0_autorun"]
                  [] k = "files" ->
                        [save_cache(cstore.entries) EXCEPT
                            !.files_is_dict = FALSE]]
    /\ CacheFrame

\* The file is deleted.
CK_Remove ==
    /\ ~cstore.done
    /\ cstore.kind = "saved"
    /\ cstore' = [cstore EXCEPT !.file = NoCacheFile, !.kind = "removed"]
    /\ CacheFrame

\* load_cache(root)
CK_Load ==
    /\ ~cstore.done
    /\ cstore' = [cstore EXCEPT !.result = load_cache(cstore.file),
                                !.done = TRUE]
    /\ CacheFrame

NextCache == CK_Save \/ CK_Damage \/ CK_Remove \/ CK_Load

SpecCache == CacheInit /\ [][NextCache]_vars

(***************************************************************************)
(* patching.py: status(), on one target file.  The file holds any content  *)
(* made of the fragments of its patch unit; a patch() run may have handled *)
(* it before status() looks at it.                                         *)
(***************************************************************************)
\* One target per list of patch names.
StatusNames == {"agent", "local", "wb"}

StatusInit ==
    /\ EngineIdle
    /\ PatchUnitIdle
    /\ store = NoStore
    /\ cstore = NoCStore
    /\ aw = NoAW
    /\ \E n \in StatusNames, rd \in BOOLEAN :
       \E c \in Contents(patch_names(n)[1]) :
          sview = [NoSView EXCEPT !.name = n, !.content = c, !.readable = rd]

StatusFrame ==
    UNCHANGED <<engineVars, unit, x, y1, y2, phase, store, cstore, aw>>

\* What the loop over patch_names of _patch_target makes of the file.
StatusApplied ==
    apply_patches(patch_names(sview.name),
                  [new_content |-> Decode(sview.content), any_applied |-> FALSE,
                   any_already |-> FALSE, unknown |-> << >>])

\* A patch() run without dry_run, restriction or I/O failure reaches the
\* file and writes it when a unit applied.
ST_Patch ==
    /\ ~sview.done
    /\ ~sview.written
    /\ sview.readable
    /\ StatusApplied.any_applied
    /\ sview' = [sview EXCEPT !.content = Encode(StatusApplied.new_content),
                              !.written = TRUE]
    /\ StatusFrame

RECURSIVE status_patched(_, _, _)
\* The loop over target.patch_names of status(): fs.patched[patch_name] is
\* is_already_patched(content), or False when get_patch raised.
status_patched(names, content, patched) ==
    IF names = << >> THEN patched
    ELSE status_patched(Tail(names), content,
             [patched EXCEPT ![Head(names)] =
                 IF get_patch_raises(Head(names)) THEN FALSE
                 ELSE Unit_is_already_patched(Head(names), content)])

\* status() reads the file and fills its FileStatus.
ST_Status ==
    /\ ~sview.done
    /\ sview.readable
    /\ sview' = [sview EXCEPT
                    !.done = TRUE,
                    !.fs = [error |-> FALSE,
                            patched |-> status_patched(patch_names(sview.name),
                                            Decode(sview.content),
                                            NoFileStatus.patched)]]
    /\ StatusFrame

\* status() cannot read the file: fs.error is set, fs.patched stays empty.
ST_ReadFails ==
    /\ ~sview.done
    /\ ~sview.readable
    /\ sview' = [sview EXCEPT !.done = TRUE,
                              !.fs = [NoFileStatus EXCEPT !.error = TRUE]]
    /\ StatusFrame

NextStatus == ST_Patch \/ ST_Status \/ ST_ReadFails

SpecStatus == StatusInit /\ [][NextStatus]_vars

(***************************************************************************)
(* Properties of the engine (checked under Spec).  The history gives the   *)
(* state the running operation started from (hist.pre, ...), the outcome   *)
(* of each target, and the last operation that returned (hist.last).       *)
(***************************************************************************)
Range(seq) == {seq[j] : j \in 1..Len(seq)}

\* The targets of installation i written by the running batch.
BatchPatched(i) == {p \in Paths : p[1] = i /\ hist.outcome[p] = "patched"}

\* No restore of the rollback failed.
RestoresSucceeded ==
    \A j \in 1..Len(report.errors) :
        report.errors[j][2] # "rollback restore failed"

\* _patch_installation has returned after a rollback.
RolledBack == pc = "sign" /\ run.op = "patch" /\ run.rolled_back

\* C1 (rollback completeness): within one installation batch of a non-dry
\* patch(), if two target files were patched and a step failed, then after
\* _patch_installation returns both files hold their pre-run content,
\* restored from backup, and the installation's cache file does not exist.
\* (Stated for rollbacks whose restores did not themselves fail.)
C1_RollbackCompleteness ==
    (RolledBack /\ Cardinality(BatchPatched(run.inst)) >= 2
                /\ RestoresSucceeded) =>
        /\ \A p \in BatchPatched(run.inst) : data[p] = hist.pre[p]
        /\ cache[run.inst] = NoCacheFile

\* The step records "backup failed" for p.
BackupFailureRecorded(p) ==
    /\ Len(report'.errors) = Len(report.errors) + 1
    /\ report'.errors[Len(report'.errors)] = <<p, "backup failed">>

\* The engine is past the targets of the installation.
PastTargets ==
    run.op = "patch" /\ pc \in {"hashsync", "checksum", "finish", "sign"}

\* C2 (no mutation without a safety copy): every file whose bytes on disk
\* were written by the patch engine has a backup sidecar, made before the
\* write; when create_backup fails for a file the error is recorded for
\* that path, the file is left unchanged, and the remaining files of the
\* batch are still processed.
C2_NoMutationWithoutBackup ==
    /\ [](hist.engine \subseteq bakPresent)
    /\ [][\A p \in Paths :
             /\ p \in hist'.engine \ hist.engine => p \in bakPresent'
             /\ BackupFailureRecorded(p) =>
                   /\ data'[p] = data[p]
                   /\ mtime'[p] = mtime[p]
                   /\ p \notin hist'.engine \ hist.engine
                   /\ p[2] \in TargetNameSet =>
                         /\ run'.idx = run.idx + 1
                         /\ pc' = AfterTarget]_vars
    /\ [](PastTargets =>
             \A j \in 1..Len(run.targets) :
                 hist.outcome[run.targets[j]] # "none")

\* create_backup failed for the first bundle and the next one was patched.
C2_Witness ==
    /\ PastTargets
    /\ \E j \in 1..Len(report.errors) :
          report.errors[j] = <<<<1, "agent">>, "backup failed">>
    /\ hist.outcome[<<1, "local">>] = "patched"
    /\ <<1, "local">> \in hist.engine

\* A patch() that was not dry has returned without an error.
DoneOk == pc = "done" /\ run.op = "patch" /\ ~run.dry_run /\ ReportOk(report)

\* The targets of installation i written by the run whose hash, as it was
\* before the run, is a literal of the loader as it was before the run.
Referenced(i) ==
    {p \in BatchPatched(i) :
        Sha256Hex(hist.pre[p]) \in Range(hist.pre[_EXT_HOST_RELPATH(i)])}

OldHashes(i) == {Sha256Hex(hist.pre[p]) : p \in Referenced(i)}

\* C3 (hash-manifest sync): after a successful patch batch in which target
\* files referenced by hash in the loader were mutated, the loader holds
\* none of their old hashes, holds the hash of the bytes written to each,
\* and every other literal of the loader is as it was.
C3_HashManifestSync ==
    DoneOk =>
        \A i \in Range(run.insts) :
            LET loader == _EXT_HOST_RELPATH(i)
            IN  (loader \in present /\ Referenced(i) # {}) =>
                    /\ \A p \in Referenced(i) :
                          /\ Sha256Hex(hist.pre[p]) \notin Range(data[loader])
                          /\ Sha256Hex(data[p]) \in Range(data[loader])
                    /\ Len(data[loader]) = Len(hist.pre[loader])
                    /\ \A j \in 1..Len(data[loader]) :
                          hist.pre[loader][j] \notin OldHashes(i) =>
                              data[loader][j] = hist.pre[loader][j]

\* Two bundles referenced by the loader were patched, and the loader holds
\* a third hash.
C3_Witness ==
    /\ DoneOk
    /\ Cardinality(Referenced(1)) = 2
    /\ \E j \in 1..Len(data[<<1, "loader">>]) :
          /\ data[<<1, "loader">>][j].t = "hash"
          /\ data[<<1, "loader">>][j] = hist.pre[<<1, "loader">>][j]

\* The files under out/ of installation i that the run changed.
MutatedUnderOut(i) ==
    {p \in Paths : p[1] = i /\ UnderOut(p) /\ data[p] # hist.pre[p]}

PatchedAndUnchanged ==
    /\ AtTarget
    /\ ~run.dry_run /\ ~run.force
    /\ hist.last.op = "patch" /\ hist.last.clean
    /\ CurPath \in hist.last.patched
    /\ Stat(CurPath) = hist.last.end[CurPath]

\* C5 (cache skip correctness): a file patched in run 1 whose
\* (mtime_ns, size) is unchanged at run 2 (not forced, not dry) is neither
\* read nor patched again by run 2: it is counted as skipped_cached, not
\* scanned, under the status run 1 recorded for it ("already_patched"),
\* and its cache entry is carried unchanged into the new snapshot.
\* (Stated for a run 2 whose stat() of the file does not fail.)
C5_CacheSkip ==
    [][(PatchedAndUnchanged /\ faults' = faults) =>
          /\ report'.skipped_cached = report.skipped_cached + 1
          /\ report'.scanned = report.scanned
          /\ report'.patched = report.patched
          /\ report'.already_patched = report.already_patched + 1
          /\ report'.skipped_not_applicable = report.skipped_not_applicable
          /\ hist'.reads = hist.reads
          /\ data' = data /\ mtime' = mtime
          /\ run.cache_data.files[CurKey].status = STATUS_PATCHED
          /\ run'.new_cache.files[CurKey] = run.cache_data.files[CurKey]]_vars

\* Run 2 skipped a file that run 1 patched.
C5_Witness ==
    /\ run.op = "patch" /\ ~run.dry_run /\ ~run.force
    /\ hist.last.op = "patch" /\ hist.last.clean
    /\ \E p \in hist.last.patched :
          /\ hist.outcome[p] = "cached"
          /\ p \notin hist.reads
    /\ report.skipped_cached = 2

\* The installations of which the last operation, a patch run, patched a
\* file.
PatchedInsts == {p[1] : p \in hist.last.patched}

\* A forced patch() with the arguments of the last operation has returned,
\* and met no I/O failure.
ForcedAgain ==
    /\ pc = "done" /\ run.op = "patch" /\ run.force
    /\ hist.last.op = "patch" /\ hist.last.patched # {}
    /\ run.only_patches = hist.last.only_patches
    /\ faults = hist.faults0

\* C7 (engine-level idempotence): a second patch() with force=True on an
\* installation that a first patch() patched changes no file on disk,
\* reports no patched file, and counts the files the first run patched as
\* already patched.
C7_EngineIdempotence ==
    ForcedAgain =>
        /\ \A p \in Paths :
              p[1] \in PatchedInsts =>
                  /\ data[p] = hist.pre[p]
                  /\ mtime[p] = hist.preMtime[p]
                  /\ p \notin Range(report.patched)
        /\ \A p \in hist.last.patched :
              p[1] \in Range(run.insts) => hist.outcome[p] = "already"
        /\ report.already_patched >=
              Cardinality({p \in hist.last.patched : p[1] \in Range(run.insts)})

\* The forced run found the two bundles of installation 1 patched.
C7_Witness ==
    /\ ForcedAgain
    /\ ~run.dry_run
    /\ Cardinality(hist.last.patched) >= 2
    /\ report.already_patched >= 2
    /\ report.scanned >= 2

\* A dry patch() is running or has returned.
DryPatch == run.op = "patch" /\ run.dry_run

\* The target files of the installations a run was given.
TargetsOf(insts) ==
    {p \in present : p[1] \in Range(insts) /\ p[2] \in TargetNameSet}

\* C8 (dry-run purity of patch()): with dry_run=True no target, loader or
\* manifest file is written, no backup is created, the cache file is
\* neither read nor written nor deleted, no rollback is performed and
\* re-signing is never invoked; and every file to which a patch would
\* apply is listed in report.patched (when every file could be read).
C8_DryRunPurity ==
    DryPatch =>
        /\ present = hist.prePresent
        /\ data = hist.pre
        /\ mtime = hist.preMtime
        /\ bakPresent = hist.preBak
        /\ bakData = hist.preBakData
        /\ cache = hist.preCache
        /\ ~run.cache_data.some
        /\ ~run.new_cache.some
        /\ ~run.rolled_back
        /\ report.codesign = << >>
        /\ (pc = "done" /\ faults = hist.faults0) =>
              \A p \in TargetsOf(run.insts) :
                  Applied(p, run.only_patches).any_applied =>
                      p \in Range(report.patched)

\* A dry run listed two bundles of an installation that would be re-signed
\* and that has sidecars and a cache file from an earlier run.
C8_Witness ==
    /\ DryPatch
    /\ pc = "done"
    /\ Len(report.patched) >= 2
    /\ signed[1]
    /\ <<1, "agent">> \in bakPresent
    /\ cache[1] # NoCacheFile

\* An unpatch() that was not dry has returned; the last operation was a
\* patch run, and neither met an I/O failure.
UnpatchedAfterPatch ==
    /\ pc = "done" /\ run.op = "unpatch" /\ ~run.dry_run
    /\ hist.last.op = "patch" /\ ~hist.last.dry_run /\ hist.last.clean
    /\ faults = hist.faults0

\* The installations given to both runs that had no sidecar before the
\* patch run.
FreshInsts ==
    {i \in Range(run.insts) \cap Range(hist.last.insts) :
        \A p \in hist.last.preBak : p[1] # i}

\* C9 (patch/unpatch round trip): for an installation with no pre-existing
\* backups, patch() followed by unpatch() restores every target file, the
\* loader and product.json to their pre-patch bytes, lists each restored
\* path in report.restored with report.ok true, and leaves no sidecar.
C9_RoundTrip ==
    UnpatchedAfterPatch =>
        /\ ReportOk(report)
        /\ \A p \in Paths :
              p[1] \in FreshInsts =>
                  /\ data[p] = hist.last.pre[p]
                  /\ p \notin bakPresent
                  /\ p \in Range(report.restored) <=> p \in hist.preBak

\* Two bundles, the loader and the manifest were patched and restored.
C9_Witness ==
    /\ UnpatchedAfterPatch
    /\ 1 \in FreshInsts
    /\ hist.last.ok
    /\ {<<1, "agent">>, <<1, "local">>, <<1, "loader">>, <<1, "pj">>}
          \subseteq Range(report.restored)
    /\ data[<<1, "loader">>] = hist.last.pre[<<1, "loader">>]
    /\ data[<<1, "loader">>] # hist.pre[<<1, "loader">>]

(***************************************************************************)
(* Properties of the patch units (checked under SpecUnit).                 *)
(***************************************************************************)
\* C6 (patch-unit idempotence): for every patch unit and every content x on
\* which apply(x) reports applied, applying the unit again to the output
\* reports already_patched and not applied, and returns content identical
\* to the output of the first application.
C6_UnitIdempotence ==
    (phase = 2 /\ y1.result.applied) =>
        /\ y2.result.already_patched
        /\ ~y2.result.applied
        /\ y2.content = y1.content

\* A content on which the workbench unit made both of its replacements has
\* been applied twice.
C6_Witness ==
    /\ phase = 2
    /\ unit = "autorun_workbench"
    /\ y1.result.applied
    /\ y1.result.replacements = 2
    /\ y1.content # x

(***************************************************************************)
(* Properties of the backup store (checked under SpecBackup).              *)
(***************************************************************************)
\* A call of create_backup that made the sidecar, and a later call of
\* create_backup with nothing but writes to the file, restores and further
\* create_backup calls in between.
CreatedThenCreated(i, j) ==
    /\ i < j
    /\ store.log[i].op = "create"
    /\ store.log[i].ret.ok
    /\ ~store.log[i].before.exists
    /\ store.log[j].op = "create"
    /\ \A k \in (i + 1)..(j - 1) : store.log[k].op # "remove"

\* C10 (backup idempotence, first-write-wins): for any sequence
\* create_backup(f); modify f; create_backup(f) both calls return the same
\* backup path and the backup holds the content f had before the first
\* call; a create_backup call on a file that already has a backup never
\* changes the backup's bytes.
C10_FirstWriteWins ==
    /\ \A i, j \in 1..Len(store.log) :
          CreatedThenCreated(i, j) =>
              /\ store.log[j].ret = store.log[i].ret
              /\ store.log[j].after.exists
              /\ store.log[j].after.bytes = store.log[i].file
    /\ \A j \in 1..Len(store.log) :
          (store.log[j].op = "create" /\ store.log[j].before.exists) =>
              store.log[j].after = store.log[j].before

\* create_backup, a write of other bytes, create_backup.
C10_Witness ==
    /\ Len(store.log) = 3
    /\ CreatedThenCreated(1, 3)
    /\ store.log[2].op = "modify"
    /\ store.log[3].file # store.log[1].file

(***************************************************************************)
(* Properties of the cache file (checked under SpecCache).                 *)
(***************************************************************************)
\* An entry load_cache has to return: a dictionary with one of the two
\* statuses whose mtime_ns and size are integers.
WellFormed(e) ==
    /\ e.has /\ e.is_dict
    /\ e.status \in {STATUS_PATCHED, STATUS_NOT_APPLICABLE}
    /\ e.mtime_is = "int" /\ e.size_is = "int"

\* C11: load_cache after save_cache(root, entries) returns a cache that
\* holds every well-formed entry as it was saved and nothing that was not
\* saved, so that only malformed entries are dropped; a missing file, a
\* text that does not parse, another format version or another signature
\* give None, whatever entries the file holds.
C11_CacheRoundTrip ==
    cstore.done =>
        /\ cstore.kind = "saved" =>
              /\ cstore.result.some
              /\ \A n \in TargetNameSet :
                    /\ WellFormed(cstore.entries[n]) =>
                          cstore.result.files[n] = cstore.entries[n]
                    /\ cstore.result.files[n].has =>
                          /\ cstore.entries[n].has
                          /\ cstore.result.files[n].status
                               = cstore.entries[n].status
                          /\ cstore.result.files[n].mtime_ns
                               = cstore.entries[n].mtime_ns
                          /\ cstore.result.files[n].size
                               = cstore.entries[n].size
        /\ cstore.kind \in {"none", "removed", "garbage", "version",
                            "signature"} =>
              cstore.result = NoneDict

\* A saved dictionary with a well-formed and a malformed entry was loaded.
C11_Witness ==
    /\ cstore.done
    /\ cstore.kind = "saved"
    /\ WellFormed(cstore.entries["agent"])
    /\ cstore.entries["local"].has
    /\ ~WellFormed(cstore.entries["local"])
    /\ ~cstore.result.files["local"].has

(***************************************************************************)
(* Further properties of the patch units (checked under SpecUnit); y1 is   *)
(* what apply returned for x, y2 what it returned for y1's content.        *)
(***************************************************************************)
OutcomeOk(r) ==
    /\ ~(r.applied /\ r.already_patched)
    /\ (~r.applied /\ ~r.already_patched) => r.not_applicable

\* C12: for every patch unit and every content, the result of apply has at
\* most one of applied and already_patched set, and not_applicable set when
\* neither is.
C12_PatchOutcome ==
    /\ phase >= 1 => OutcomeOk(y1.result)
    /\ phase = 2 => OutcomeOk(y2.result)

\* apply has returned for a content that holds both the marker and the
\* unit's target pattern.
C12_Witness ==
    /\ phase = 1
    /\ Unit_is_applicable(unit, x)
    /\ Unit_is_already_patched(unit, x)
    /\ y1.result.already_patched

\* C13: for every patch unit and every content x on which is_applicable is
\* false and that does not hold the unit's marker, apply returns x unchanged
\* with not_applicable set, applied unset and no replacements.
C13_NoOpPurity ==
    (/\ phase >= 1
     /\ ~Unit_is_applicable(unit, x)
     /\ ~Unit_is_already_patched(unit, x)) =>
        /\ y1.content = x
        /\ y1.result.not_applicable
        /\ ~y1.result.applied
        /\ y1.result.replacements = 0

\* apply has returned for a content that holds the method the autorun
\* unit's expression matches, but not the word teamSettingsService.
C13_Witness ==
    /\ phase = 1
    /\ unit = "autorun"
    /\ Has(x, {"ar_impl"})
    /\ ~Unit_is_applicable(unit, x)
    /\ ~Unit_is_already_patched(unit, x)

\* The indexes of the availableModels descriptors of c.
AvailableSites(c) == {j \in 1..Len(c) : c[j].t = "m_avail"}

\* The transformation of unit u has no site in c it can edit: no text the
\* expressions of the autorun unit match, no literal of the workbench unit,
\* and for the models unit no descriptor whose prefix can be resolved.
ZeroEdits(u, c) ==
    CASE u = "autorun" -> \A i \in 1..Len(c) : c[i].t \notin {"ar_impl", "ar_call"}
      [] u = "autorun_workbench" ->
            \A i \in 1..Len(c) : c[i].t \notin {"wb_def_old", "wb_comp_old"}
      [] u = "models" ->
            \A i \in 1..Len(c) :
                c[i].t = "m_usable" =>
                    /\ ~HasAvailableRequest(c, c[i].p)
                    /\ AvailableSites(c) = {}

\* C14: for every patch unit, when is_applicable(x) is true and the marker
\* is absent but the transformation makes no edit, apply reports
\* not_applicable and not applied, with no replacements, and returns x.
C14_ZeroEditDowngrade ==
    (/\ phase >= 1
     /\ Unit_is_applicable(unit, x)
     /\ ~Unit_is_already_patched(unit, x)
     /\ ZeroEdits(unit, x)) =>
        /\ y1.result.not_applicable
        /\ ~y1.result.applied
        /\ y1.result.replacements = 0
        /\ y1.content = x

\* apply of the models unit has returned for a content with a
\* getUsableModels descriptor whose prefix cannot be resolved.
C14_Witness ==
    /\ phase = 1
    /\ unit = "models"
    /\ Has(x, {"m_usable"})
    /\ Unit_is_applicable(unit, x)
    /\ ~Unit_is_already_patched(unit, x)
    /\ ZeroEdits(unit, x)

(***************************************************************************)
(* Further properties of the engine (checked under Spec).                  *)
(***************************************************************************)
\* The workbench file of installation i.
Workbench(i) == <<i, "wb">>

\* patch() is about to return from a run without dry_run, without an
\* only_patches restriction and without an I/O failure, over an
\* installation whose workbench file held the target literals of the
\* autorun_workbench unit when the run started.
PatchedWorkbench(i) ==
    /\ pc = "done"
    /\ run.op = "patch"
    /\ ~run.dry_run
    /\ run.only_patches = NoOnly
    /\ faults = hist.faults0
    /\ \E j \in 1..Len(run.insts) : run.insts[j] = i
    /\ Workbench(i) \in hist.prePresent
    /\ Workbench_is_applicable(Decode(hist.pre[Workbench(i)]))
    /\ ~Workbench_is_already_patched(Decode(hist.pre[Workbench(i)]))

\* C15: when an installation holds out/vs/workbench/workbench.desktop.main.js
\* with the target literals of autorun_workbench, patch() returns a report
\* that is ok and lists the file as patched, and the file on disk holds the
\* CGP_PATCH_AUTORUN_WORKBENCH marker.
C15_WorkbenchThroughEngine ==
    \A i \in Insts :
        PatchedWorkbench(i) =>
            /\ ReportOk(report)
            /\ \E j \in 1..Len(report.patched) : report.patched[j] = Workbench(i)
            /\ Workbench_is_already_patched(Decode(data[Workbench(i)]))

(***************************************************************************)
(* Properties of status() (checked under SpecStatus).                      *)
(***************************************************************************)
\* C16: for every target file that can be read and every patch name of the
\* file (autorun, models, autorun_workbench), status() reports
\* patched[name] = true exactly when the marker of that patch is in the
\* file's content, whether or not the patch's target pattern is there; so
\* every patch of a file that a patch() run patched is reported as patched.
C16_StatusReportsMarker ==
    (sview.done /\ sview.readable) =>
        \A j \in 1..Len(patch_names(sview.name)) :
            LET n == patch_names(sview.name)[j]
            IN  sview.fs.patched[n]
                  = Unit_is_already_patched(n, Decode(sview.content))

(***************************************************************************)
(* Properties of the models, autorun and workbench units (checked under    *)
(* SpecUnit).                                                              *)
(***************************************************************************)
\* The availableModels descriptors of c whose text offset is nearest to the
\* offset of the site at index i.
NearestAvailable(c, i) ==
    {j \in AvailableSites(c) :
        \A k \in AvailableSites(c) :
            Abs(Offset(c, j) - Offset(c, i)) <= Abs(Offset(c, k) - Offset(c, i))}

\* The getUsableModels descriptor at index i of x was rewritten to reference
\* the AvailableModels types with prefix q.
RewrittenWith(i, q) ==
    /\ y1.content[i].t = "m_patched"
    /\ y1.content[i].p = q

\* The getUsableModels sites of x that apply has to rewrite.
Resolvable(c) ==
    {i \in 1..Len(c) :
        /\ c[i].t = "m_usable"
        /\ \/ HasAvailableRequest(c, c[i].p)
           \/ AvailableSites(c) # {}}

\* C17: when the models unit transforms a content, each getUsableModels
\* descriptor is rewritten with its own prefix when
\* "<prefix>.AvailableModelsRequest" is in the content, else with the prefix
\* of an availableModels descriptor at the least absolute offset distance
\* from the site; with no availableModels descriptor the site is left as it
\* is and is not counted as a replacement.
C17_PrefixResolution ==
    (/\ phase >= 1
     /\ unit = "models"
     /\ Models_is_applicable(x)
     /\ ~Models_is_already_patched(x)) =>
        /\ Len(y1.content) = Len(x)
        /\ \A i \in 1..Len(x) :
              x[i].t = "m_usable" =>
                 IF HasAvailableRequest(x, x[i].p)
                 THEN RewrittenWith(i, x[i].p)
                 ELSE IF AvailableSites(x) # {}
                 THEN \E j \in NearestAvailable(x, i) : RewrittenWith(i, x[j].p)
                 ELSE y1.content[i] = x[i]
        /\ y1.result.replacements = Cardinality(Resolvable(x))

\* The models unit has been applied to a content with a descriptor whose
\* prefix is not available and two availableModels descriptors of
\* different prefixes, the nearer of which is not the first.
C17_Witness ==
    /\ phase = 1
    /\ unit = "models"
    /\ Len(x) = 3
    /\ x[1].t = "m_avail" /\ x[2].t = "m_avail" /\ x[3].t = "m_usable"
    /\ x[1].p # x[2].p
    /\ ~HasAvailableRequest(x, x[3].p)
    /\ RewrittenWith(3, x[2].p)

\* x with the early return "return void 0/* CGP_PATCH_AUTORUN_DISABLED */;"
\* put right after the opening of its getTeamAdminSettings method, the
\* rest of the method and everything else as they were.
EarlyReturnInjected(c) == ReplaceFirst(c, {"ar_tas"}, T("ar_tas_p"))

\* C18: applying the autorun unit to a content that holds the opening of
\* its target method, "async getTeamAdminSettings(){", makes exactly one
\* edit (applied, replacements = 1): the early return is inserted right
\* after the opening, and the rest of the method body and the callers
\* downstream stay as they are.
C18_EarlyReturnInjection ==
    (/\ phase >= 1
     /\ unit = "autorun"
     /\ Count(x, {"ar_tas"}) = 1
     /\ ~AutoRun_is_already_patched(x)) =>
        /\ y1.result.applied
        /\ y1.result.replacements = 1
        /\ y1.content = EarlyReturnInjected(x)

\* C19: for the autorun unit and the autorun_workbench unit, for every
\* content x the output of apply(x) is at least as long as x, and longer
\* when applied is set.
C19_MonotonicGrowth ==
    (phase >= 1 /\ unit \in {"autorun", "autorun_workbench"}) =>
        /\ TextLen(y1.content) >= TextLen(x)
        /\ y1.result.applied => TextLen(y1.content) > TextLen(x)

(***************************************************************************)
(* The loader file in HASH-SYNC (checked under Spec).                      *)
(***************************************************************************)
\* The hashes the files written in this batch had before they were written.
OldHashesOfBatch == {run.hash_pairs[j][1] : j \in 1..Len(run.hash_pairs)}

\* The loader file holds none of them (or no file was written).
NoOldHashInLoader ==
    \A k \in 1..Len(data[ExtHost]) : Decode(data[ExtHost])[k] \notin OldHashesOfBatch

\* C20: if the loader file holds none of the old hashes of the files written
\* in the run, or no file was written, HASH-SYNC leaves the loader file
\* byte-identical, creates no backup of it and does not add it to the files
\* handed to CHECKSUM-SYNC.
C20_LoaderUntouched ==
    [][(AtHashSync /\ NoOldHashInLoader) =>
          /\ data'[ExtHost] = data[ExtHost]
          /\ mtime'[ExtHost] = mtime[ExtHost]
          /\ (ExtHost \in bakPresent') = (ExtHost \in bakPresent)
          /\ bakData'[ExtHost] = bakData[ExtHost]
          /\ pc' = "checksum"
          /\ \A j \in 1..Len(OutFiles') : OutFiles'[j] # ExtHost]_vars

\* HASH-SYNC is over for a batch that wrote a file whose old hash the
\* loader file does not hold.
C20_Witness ==
    /\ pc = "checksum"
    /\ run.op = "patch"
    /\ run.hash_pairs # << >>
    /\ ExtHost \in present
    /\ NoOldHashInLoader
    /\ ~run.ext_host_modified
    /\ ExtHost \notin bakPresent
    /\ faults = hist.faults0

(***************************************************************************)
(* CHECKSUM-SYNC, unpatch(), re-signing, rollback and the cache commit     *)
(* (checked under Spec).                                                   *)
(***************************************************************************)
\* product.json parses and has no checksums key or an empty checksums table.
NoChecksumTable ==
    /\ Product \in present
    /\ JsonParses(data[Product])
    /\ ChecksumKeys(data[Product]) = {}

\* C21: when product.json has no checksums key or an empty checksums
\* table, CHECKSUM-SYNC, whatever files the run wrote and unless reading
\* product.json itself fails, records no error, does not write product.json
\* and creates no backup of it.
C21_NoTableNoOp ==
    [][(AtChecksum /\ NoChecksumTable /\ faults' = faults) =>
          /\ report'.errors = report.errors
          /\ data'[Product] = data[Product]
          /\ mtime'[Product] = mtime[Product]
          /\ (Product \in bakPresent') = (Product \in bakPresent)
          /\ bakData'[Product] = bakData[Product]
          /\ pc' = "finish"]_vars

\* CHECKSUM-SYNC is over for a batch that rewrote the loader file of an
\* installation whose product.json has no checksums table.
C21_Witness ==
    /\ pc = "finish"
    /\ run.op = "patch"
    /\ ~run.dry_run
    /\ run.ext_host_modified
    /\ OutFiles # << >>
    /\ NoChecksumTable
    /\ Product \notin bakPresent
    /\ faults = hist.faults0

RECURSIVE TargetsOfAll(_)
\* The target files of the installations of a list, in the order unpatch()
\* visits them.
TargetsOfAll(q) ==
    IF q = << >> THEN << >> ELSE target_files(Head(q)) \o TargetsOfAll(Tail(q))

\* The files unpatch() looks at: the targets and the two auxiliary files of
\* the installations it was given.
UnpatchScope ==
    {p \in Paths : \E j \in 1..Len(run.insts) : p[1] = run.insts[j]}

\* unpatch() has returned its report.
UnpatchDone == pc = "done" /\ run.op = "unpatch"

\* No file in the scope of the call had a backup when it started.
NoBackupAtStart == UnpatchScope \cap hist.preBak = {}

\* C22: unpatch() on installations none of whose files has a backup lists
\* every target file under no_backup, restores nothing, records no error,
\* leaves every file, every stat value and every sidecar as they were and
\* does not delete the cache.
C22_UnpatchWithoutBackup ==
    (UnpatchDone /\ NoBackupAtStart) =>
        /\ report.no_backup = TargetsOfAll(run.insts)
        /\ report.restored = << >>
        /\ ReportOk(report)
        /\ report.codesign = << >>
        /\ data = hist.pre
        /\ mtime = hist.preMtime
        /\ present = hist.prePresent
        /\ bakPresent = hist.preBak
        /\ bakData = hist.preBakData
        /\ cache = hist.preCache

C22_Witness ==
    /\ UnpatchDone
    /\ NoBackupAtStart
    /\ ~run.dry_run
    /\ Len(report.no_backup) > 1
    /\ \E j \in 1..Len(run.insts) : cache[run.insts[j]] # NoCacheFile

\* A variant of main() that also exits with 1 after a failed re-signing.
main_exit_strict(r) ==
    IF ReportOk(r) /\ \A j \in 1..Len(r.codesign) : r.codesign[j].success
    THEN 0 ELSE 1

\* cli.py main(), patch and unpatch subcommands: "if not report.ok:
\* sys.exit(1)"; otherwise main() returns and the process exits with 0.
main_exit(r) == IF ~ReportOk(r) THEN 1 ELSE 0

\* patch() or unpatch() has returned its report to main().
ReportReturned == pc = "done"

\* C23: for the patch and the unpatch subcommand the exit status is
\* non-zero exactly when the returned report holds at least one error; a
\* failed re-signing alone leaves it zero.
C23_ExitStatus ==
    ReportReturned =>
        /\ (main_exit(report) # 0) <=> (Len(report.errors) > 0)
        /\ ((\E j \in 1..Len(report.codesign) : ~report.codesign[j].success)
              /\ report.errors = << >>) => main_exit(report) = 0

C23_Witness ==
    /\ ReportReturned
    /\ \E j \in 1..Len(report.codesign) : ~report.codesign[j].success
    /\ report.errors = << >>
    /\ main_exit(report) = 0

(***************************************************************************)
(* restore_backup as a call on the backup store (checked under SpecBackup) *)
(***************************************************************************)
\* The step is a call of restore_backup: it adds a "restore" entry to the log.
RestoreCalled ==
    /\ Len(store'.log) = Len(store.log) + 1
    /\ store'.log[Len(store'.log)].op = "restore"

\* What the call that was just logged returned.
RestoreReturn == store'.log[Len(store'.log)].ret

Restorable ==
    {p \in UnpatchScope :
        /\ has_backup(p)
        /\ \/ p \in present /\ p[2] \in TargetNameSet
           \/ p = _EXT_HOST_RELPATH(p[1])
           \/ p = product_json(p[1])}

\* The report of a dry run that has returned lists the restorable files,
\* each once, and nothing else.
DryRunReport ==
    (UnpatchDone /\ run.dry_run) =>
        /\ {report.restored[j] : j \in 1..Len(report.restored)} = Restorable
        /\ Len(report.restored) = Cardinality(Restorable)
        /\ report.errors = << >>
        /\ report.codesign = << >>

\* C25: unpatch(dry_run=True) lists every target and auxiliary file that
\* has a backup in report.restored, and no step of it overwrites a file,
\* deletes a backup, deletes the cache file or invokes re-signing.
C25_UnpatchDryRunPurity ==
    [][/\ (run.op = "unpatch" /\ run.dry_run) =>
             /\ UNCHANGED fsVars
             /\ pc' # "idle" => report'.codesign = << >>
       /\ DryRunReport']_vars

\* A dry run over an installation that is signed, has backups of a target
\* and of an auxiliary file, and a cache file.
C25_Witness ==
    /\ UnpatchDone
    /\ run.dry_run
    /\ \E j \in 1..Len(report.restored) : report.restored[j][2] \in TargetNameSet
    /\ \E j \in 1..Len(report.restored) : report.restored[j][2] \notin TargetNameSet
    /\ signed[1]
    /\ cache[1] # NoCacheFile

\* The only_patches restriction of the call names a patch that is not in
\* the registry.
UnknownInOnly ==
    /\ run.only_patches.given
    /\ \E n \in run.only_patches.names : get_patch_raises(n)

\* The patch list of target p, as restricted by the call, names a patch
\* that is not in the registry.
UnknownInList(p) ==
    \E j \in 1..Len(WantedNames(p, run.only_patches)) :
        get_patch_raises(WantedNames(p, run.only_patches)[j])

\* The targets whose bytes patch() has read in this call.
TargetsRead == {p \in hist.reads : p[2] \in TargetNameSet}

\* C26: a patch name that is not in the registry, requested through a
\* target's patch list or through only_patches, is a failure of the call:
\* the report patch() returns is not ok, and a target for which such a name
\* was requested is not counted as "not applicable".
C26_UnknownPatchHardFailure ==
    (pc = "done" /\ run.op = "patch") =>
        /\ UnknownInOnly => ~ReportOk(report)
        /\ \A p \in TargetsRead :
              (UnknownInList(p) \/ UnknownInOnly) =>
                  /\ hist.outcome[p] # "not_applicable"
                  /\ \E j \in 1..Len(report.errors) : report.errors[j][1] = p

\* The step calls codesign_app: the batch of the installation is over and
\* the condition of patch() or of unpatch() for re-signing holds.
ResignCalled ==
    /\ pc = "sign"
    /\ \/ run.op = "patch" /\ WillSign
       \/ run.op = "unpatch" /\ WillSignUnpatch

\* The entry the call added to report.codesign says it failed.
ResignFailed ==
    /\ Len(report'.codesign) = Len(report.codesign) + 1
    /\ ~report'.codesign[Len(report'.codesign)].success

\* C27: the call of the re-signing collaborator adds one entry to
\* report.codesign; when it failed, no error is added to the report,
\* report.ok is as before, no file, sidecar or cache file changes (nothing
\* is rolled back) and report.patched and report.restored keep their
\* entries.
C27_ResignAdvisory ==
    [][ResignCalled =>
          /\ Len(report'.codesign) = Len(report.codesign) + 1
          /\ ResignFailed =>
                /\ report'.errors = report.errors
                /\ ReportOk(report') = ReportOk(report)
                /\ report'.patched = report.patched
                /\ report'.restored = report.restored
                /\ run'.rolled_back = run.rolled_back
                /\ UNCHANGED fsVars]_vars

\* patch() has returned after a failed re-signing: the report is ok and
\* lists patched files, and they hold what the engine wrote.
C27_Witness ==
    /\ pc = "done"
    /\ run.op = "patch"
    /\ \E j \in 1..Len(report.codesign) : ~report.codesign[j].success
    /\ ReportOk(report)
    /\ report.patched # << >>
    /\ \A j \in 1..Len(report.patched) : report.patched[j] \in hist.engine

\* _rollback_installation_changes ran in this step.
RollbackRan == run'.rolled_back /\ ~run.rolled_back

\* The errors of report' are those of report followed by errors of failed
\* restores.
RestoreErrorsAppended ==
    /\ Len(report'.errors) >= Len(report.errors)
    /\ SubSeq(report'.errors, 1, Len(report.errors)) = report.errors
    /\ \A j \in (Len(report.errors) + 1)..Len(report'.errors) :
          report'.errors[j][2] = "rollback restore failed"

\* C28: at the end of an installation's processing the rollback runs
\* exactly when the run is not a dry run, the report holds more errors
\* than when the installation began and more patched files; the order in
\* which the error and the patched file were recorded plays no part.  The
\* rollback appends the errors of its failed restores to the report, and
\* after it the installation is left for re-signing: no file is touched and
\* no error is added, so there is no second rollback.
C28_RollbackTrigger ==
    [][/\ AtFinish =>
             /\ RollbackRan <=>
                   /\ ~run.dry_run
                   /\ Len(report.errors) > run.errors_before_install
                   /\ Len(report.patched) > run.patched_before
             /\ RollbackRan => (RestoreErrorsAppended /\ pc' = "sign")
             /\ ~RollbackRan =>
                   (report' = report /\ UNCHANGED <<present, data, mtime,
                                                    bakPresent, bakData>>)
       /\ (pc = "sign" /\ run.op = "patch") =>
             /\ UNCHANGED fsVars
             /\ report'.errors = report.errors
             /\ report'.patched = report.patched
             /\ pc' = "inst"]_vars

\* A rollback after an error that was recorded before the first write: the
\* agent bundle could not be read, the local bundle was patched, and the
\* rollback gave it its bytes back.
C28_Witness ==
    /\ RolledBack
    /\ hist.outcome[<<1, "agent">>] = "error"
    /\ hist.outcome[<<1, "local">>] = "patched"
    /\ data[<<1, "local">>] = hist.pre[<<1, "local">>]
    /\ report.patched = << >>

\* The run is not a dry run and the report holds as many errors as when
\* the installation began.
CommitCondition ==
    /\ ~run.dry_run
    /\ Len(report.errors) = run.errors_before_install

\* C29: at the end of an installation's processing, when the run is not a
\* dry run and no error was recorded for the installation, the cache file
\* of the installation becomes the new snapshot; otherwise, unless the
\* rollback ran, the cache file stays as it was; when persisting fails the
\* old file stays and the report is not changed; the cache files of the
\* other installations are never touched.
C29_CacheCommit ==
    [][AtFinish =>
          /\ (CommitCondition /\ faults' = faults) =>
                cache'[run.inst] = save_cache(run.new_cache.files)
          /\ (CommitCondition /\ faults' # faults) =>
                (cache' = cache /\ report' = report)
          /\ (~CommitCondition /\ ~RollbackRan) => cache' = cache
          /\ \A i \in Insts \ {run.inst} : cache'[i] = cache[i]]_vars

\* The snapshot of an installation was persisted over another cache file.
C29_Witness ==
    /\ pc = "sign"
    /\ run.op = "patch"
    /\ CommitCondition
    /\ cache[run.inst] = save_cache(run.new_cache.files)
    /\ cache[run.inst] # hist.preCache[run.inst]
    /\ hist.preCache[run.inst] # NoCacheFile

\* The step invoked codesign_app: report.codesign got one more entry.
ResignInvoked == Len(report'.codesign) = Len(report.codesign) + 1

\* patch() decides about re-signing the installation it has processed.
AtResignDecision == pc = "sign" /\ run.op = "patch"

\* The rollback cuts report.patched to its length before the installation:
\* the entries of the installations processed before stay.
TruncationKeepsEarlier ==
    (AtFinish /\ RollbackRan) =>
        report'.patched = SubSeq(report.patched, 1, run.patched_before)

\* C30 as stated: re-signing is invoked exactly when report.patched is
\* longer than before the installation and the installation requires
\* re-signing; never for an installation that was rolled back; and the
\* truncation keeps the entries of earlier installations.
C30_ResignDecisionAsStated ==
    [][/\ AtResignDecision =>
             /\ ResignInvoked <=>
                   /\ Len(report.patched) > run.patched_before
                   /\ signed[run.inst]
             /\ run.rolled_back => ~ResignInvoked
       /\ TruncationKeepsEarlier]_vars

\* C30, amended: in a run that is not a dry run, re-signing is invoked
\* exactly when report.patched is longer than before the installation
\* (after the rollback, if any, truncated it) and the installation requires
\* re-signing; a dry run never invokes it; an installation that was rolled
\* back never triggers it; and the truncation keeps the entries of earlier
\* installations.
C30_ResignDecision ==
    [][/\ AtResignDecision =>
             /\ ResignInvoked <=>
                   /\ ~run.dry_run
                   /\ Len(report.patched) > run.patched_before
                   /\ signed[run.inst]
             /\ ~ResignInvoked => report'.codesign = report.codesign
             /\ run.rolled_back => ~ResignInvoked
       /\ TruncationKeepsEarlier]_vars

\* Installation 1, which requires re-signing, was rolled back after
\* installation 2 was patched: the entry of installation 2 is still in
\* report.patched and nothing was re-signed.
C30_Witness ==
    /\ pc = "inst"
    /\ run.op = "patch"
    /\ run.rolled_back
    /\ run.inst = 1
    /\ signed[1]
    /\ run.patched_before > 0
    /\ report.patched = <<<<2, "agent">>>>
    /\ report.codesign = << >>

(***************************************************************************)
(* The engine without I/O failures and without application updates, over   *)
(* MaxCleanOps operations: the budgets of failures and of updates are      *)
(* spent from the start, and the steps are those of the code's paths on    *)
(* which no call raises.                                                   *)
(***************************************************************************)
MaxCleanOps == 3

CleanInit ==
    /\ \E lay \in Layouts, sign \in BOOLEAN :
          EngineInitWith(lay, sign, MaxFaults,
                         [runs |-> MaxOps - MaxCleanOps, updates |-> MaxUpdates])
    /\ UnitIdle

NextClean ==
    \/ StartPatch \/ BeginInstallation
    \/ PT_CacheHit \/ PT_NotApplied \/ PT_DryRun \/ PT_Write
    \/ HS_Skip \/ HS_Write \/ CS_Skip \/ CS_Write
    \/ FinishRollback \/ FinishSave \/ FinishNoSave
    \/ SignInvoke \/ SignSkip
    \/ StartUnpatch \/ BeginUnpatchInstallation
    \/ UT_NoBackup \/ UT_DryRun \/ UT_Restore
    \/ UA_NoBackup \/ UA_DryRun \/ UA_Restore
    \/ UnpatchSignInvoke \/ UnpatchSignSkip
    \/ EndRun \/ Return

SpecClean == CleanInit /\ [][NextClean]_vars

(***************************************************************************)
(* Properties over several operations (checked under SpecClean and Spec)   *)
(***************************************************************************)
\* The target files the unpatch() that has just returned restored.
RestoredTargets ==
    {p \in Paths : /\ p[2] \in TargetNameSet
                   /\ \E j \in 1..Len(report.restored) : report.restored[j] = p}

\* The running patch() follows an unpatch() that was not a dry run.
PatchAfterUnpatch ==
    /\ run.op = "patch"
    /\ hist.last.op = "unpatch"
    /\ hist.last.clean

\* The target files the last unpatch() restored that the running patch()
\* is given, with a restriction that leaves their patch lists whole.
RestoredAndWanted ==
    {p \in hist.last.restored :
        /\ p[2] \in TargetNameSet
        /\ \E j \in 1..Len(run.insts) : run.insts[j] = p[1]
        /\ WantedNames(p, run.only_patches) = patch_names(p[2])}

Writers == {1, 2}

\* tmp.write_bytes(data) reaches the file in NChunks writes.
NChunks == 2

MaxInodes == 3

Inodes == 1..MaxInodes

\* A piece of a payload, and the zero bytes of a gap left by a write past
\* the end of a file.
Chunk(by, no) == [by |-> by, no |-> no]

Hole == Chunk(-1, 0)

\* The whole payload of process k; process 0 wrote the file that is there
\* from the start.
Complete(k) == [j \in 1..NChunks |-> Chunk(k, j)]

CompleteContents == {Complete(k) : k \in Writers \cup {0}}

\* What a reader of the cache path gets.
Observed(exists, bytes) == [exists |-> exists, bytes |-> bytes]

AtPath ==
    IF aw.path = 0 THEN Observed(FALSE, << >>)
    ELSE Observed(TRUE, aw.inode[aw.path])

\* The inodes a name or an open descriptor refers to.
InUse ==
    {aw.path, aw.tmp} \cup {aw.w[k].fd : k \in Writers}

FreeInode == CHOOSE i \in Inodes : i \notin InUse /\ \A j \in Inodes : j < i => j \in InUse

\* A write of chunk c at position k of content: a position past the end
\* leaves a gap.
WriteAt(content, k, c) ==
    [j \in 1..(IF k > Len(content) THEN k ELSE Len(content)) |->
        IF j = k THEN c
        ELSE IF j <= Len(content) THEN content[j] ELSE Hole]

AtomicInit ==
    /\ EngineIdle
    /\ PatchUnitIdle
    /\ store = NoStore
    /\ cstore = NoCStore
    /\ sview = NoSView
    /\ \E there \in BOOLEAN :
          aw = [inode |-> [i \in Inodes |->
                              IF there /\ i = 1 THEN Complete(0) ELSE << >>],
                path |-> IF there THEN 1 ELSE 0,
                tmp |-> 0,
                w |-> [k \in Writers |-> [pc |-> "start", fd |-> 0, pos |-> 0]],
                seen |-> {}]

AtomicFrame ==
    UNCHANGED <<engineVars, unit, x, y1, y2, phase, store, cstore, sview>>

\* tmp.write_bytes(data), the open: open(tmp, "wb") creates the file, or
\* truncates the one that is there under that name.
AW_Open(k) ==
    /\ aw.w[k].pc = "start"
    /\ LET i == IF aw.tmp = 0 THEN FreeInode ELSE aw.tmp
       IN  aw' = [aw EXCEPT !.inode[i] = << >>,
                            !.tmp = i,
                            !.w[k] = [pc |-> "write", fd |-> i, pos |-> 0]]
    /\ AtomicFrame

\* tmp.write_bytes(data), a write: the next chunk goes to the descriptor's
\* inode at the descriptor's offset.
AW_Write(k) ==
    /\ aw.w[k].pc = "write"
    /\ LET n == aw.w[k].pos + 1
       IN  aw' = [aw EXCEPT
                     !.inode[aw.w[k].fd] = WriteAt(@, n, Chunk(k, n)),
                     !.w[k].pos = n,
                     !.w[k].pc = IF n = NChunks THEN "replace" ELSE "write",
                     !.w[k].fd = IF n = NChunks THEN 0 ELSE @]
    /\ AtomicFrame

\* os.replace(tmp, path): the cache path takes the inode of the .tmp name,
\* and the .tmp name is gone.
AW_Replace(k) ==
    /\ aw.w[k].pc = "replace"
    /\ aw.tmp # 0
    /\ aw' = [aw EXCEPT !.path = aw.tmp, !.tmp = 0, !.w[k].pc = "done"]
    /\ AtomicFrame

\* os.replace(tmp, path) raises FileNotFoundError: another process has
\* renamed the .tmp name away.
AW_ReplaceFails(k) ==
    /\ aw.w[k].pc = "replace"
    /\ aw.tmp = 0
    /\ aw' = [aw EXCEPT !.w[k].pc = "failed"]
    /\ AtomicFrame

\* The process dies between two steps.
AW_Crash(k) ==
    /\ aw.w[k].pc \in {"write", "replace"}
    /\ aw' = [aw EXCEPT !.w[k].pc = "crashed", !.w[k].fd = 0]
    /\ AtomicFrame

\* load_cache in another process: p.exists(), p.read_text().
AW_Read ==
    /\ AtPath \notin aw.seen
    /\ aw' = [aw EXCEPT !.seen = @ \cup {AtPath}]
    /\ AtomicFrame

NextAtomic ==
    \/ \E k \in Writers :
          \/ AW_Open(k) \/ AW_Write(k) \/ AW_Replace(k) \/ AW_ReplaceFails(k)
          \/ AW_Crash(k)
    \/ AW_Read

SpecAtomic == AtomicInit /\ [][NextAtomic]_vars

\* A content a reader may get: no file, or a whole payload.
WholeOrAbsent(o) == ~o.exists \/ o.bytes \in CompleteContents

\* C32: at every point of every save, after a crash at any step and with
\* other processes saving and reading, the cache path holds a whole payload
\* (the previous one or a new one), and that is all a reader ever got.
C32_AtomicCacheSave ==
    /\ WholeOrAbsent(AtPath)
    /\ \A o \in aw.seen : WholeOrAbsent(o)

\* The same with one process saving: the other has not started.
SoleWriter == aw.w[2].pc = "start"

\* The step belongs to the rewrite of the loader or to the rewrite of
\* product.json.
AtAuxRewrite == run.op = "patch" /\ pc \in {"hashsync", "checksum"}

\* C33: the rewrite of the loader and the rewrite of product.json never
\* leave a half-written file under the file's name: after every step of
\* them each of the two files holds what it held before the step or its
\* whole new content.
C33_AtomicAuxRewrites ==
    [][AtAuxRewrite =>
          \A p \in {ExtHost, Product} : data[p] # Torn => data'[p] # Torn]_vars

\* The running patch() is unrestricted, not forced and not a dry run, and
\* follows a patch() that was restricted with only_patches.
UnrestrictedAfterRestricted ==
    /\ run.op = "patch"
    /\ ~run.force
    /\ ~run.dry_run
    /\ run.only_patches = NoOnly
    /\ hist.last.op = "patch"
    /\ hist.last.only_patches.given

\* C34: an unrestricted, non-forced patch() after a restricted one never
\* skips, on a cache hit, a file to which a patch of its list still
\* applies: the patches the first run excluded are evaluated and applied.
C34_RestrictedRunKeepsCacheSound ==
    UnrestrictedAfterRestricted =>
        \A p \in Paths :
            hist.outcome[p] = "cached" => ~Applied(p, NoOnly).any_applied

\* The run has neither changed file p nor touched its backup, which an
\* earlier run made.
UntouchedWithOldBackup(p) ==
    /\ data[p] = hist.pre[p]
    /\ p \in hist.preBak
    /\ has_backup(p)
    /\ bakData[p] = hist.preBakData[p]

\* C35: a rollback leaves the loader and product.json as they were at the
\* start of the run when the run has not changed them, also when a backup
\* of them exists from an earlier run.
C35_RollbackUndoesOnlyThisRun ==
    [][(AtFinish /\ RollbackRan /\ faults' = faults) =>
          \A p \in {ExtHost, Product} :
              UntouchedWithOldBackup(p) => data'[p] = hist.pre[p]]_vars

\* C36: when the engine writes the patched bytes of a target file, the
\* file's backup afterwards holds the bytes the file had just before the
\* write, also when a sidecar was there from an earlier run and the file
\* was replaced by new unpatched content in between.
C36_BackupMatchesPatched ==
    [][(AtTarget /\ faults' = faults /\ data'[CurPath] # data[CurPath]) =>
          /\ CurPath \in bakPresent'
          /\ bakData'[CurPath] = data[CurPath]]_vars

\* C37: when patch() returns, no target file of the run is half-written:
\* a target whose write failed partway has been restored from its backup.
\* (Stated for runs whose rollback restores did not themselves fail.)
C37_NoHalfWrittenTarget ==
    (pc = "done" /\ run.op = "patch" /\ RestoresSucceeded) =>
        \A p \in Paths :
            (p[2] \in TargetNameSet /\ hist.pre[p] # Torn) => data[p] # Torn

\* The number of target files patch() enumerated.
NumTargets == Len(TargetsOfAll(run.insts))

\* C38: after a patch() run that recorded no error every enumerated target
\* file is counted once by outcome (patched, already patched or not
\* applicable) and once by the way it was handled (scanned or skipped on a
\* cache hit).
C38_ReportAccounting ==
    (pc = "done" /\ run.op = "patch" /\ ReportOk(report)) =>
        /\ Len(report.patched) + report.already_patched
              + report.skipped_not_applicable = NumTargets
        /\ report.scanned + report.skipped_cached = NumTargets

\* A run without an error that skipped files on cache hits and patched
\* another.
C38_Witness ==
    /\ pc = "done"
    /\ run.op = "patch"
    /\ ReportOk(report)
    /\ ~run.dry_run
    /\ report.skipped_cached > 0
    /\ report.scanned > 0
    /\ report.patched # << >>

\* The getUsableModels sites of c that need the fallback: their own prefix
\* has no AvailableModelsRequest in c, and c has an availableModels
\* descriptor.
FallbackSites(c) ==
    {i \in 1..Len(c) :
        /\ c[i].t = "m_usable"
        /\ ~HasAvailableRequest(c, c[i].p)
        /\ AvailableSites(c) # {}}

\* The earliest in the text of the availableModels descriptors nearest to
\* the site at index i.
EarliestNearest(c, i) ==
    CHOOSE j \in NearestAvailable(c, i) :
        \A k \in NearestAvailable(c, i) : Offset(c, j) <= Offset(c, k)

\* C39: a getUsableModels site that needs the fallback is rewritten with
\* the prefix of the nearest availableModels descriptor, of two descriptors
\* at the same distance the one with the smaller text offset, and keeps its
\* own MethodKind variable.
C39_TieBreak ==
    (/\ phase >= 1
     /\ unit = "models"
     /\ Models_is_applicable(x)
     /\ ~Models_is_already_patched(x)) =>
        \A i \in FallbackSites(x) :
            /\ RewrittenWith(i, x[EarliestNearest(x, i)].p)
            /\ y1.content[i].k = x[i].k

\* The models unit has rewritten a site that lies at the same distance from
\* two availableModels descriptors of different prefixes, the earlier of
\* which has another MethodKind variable than the site.
C39_Witness ==
    /\ phase = 1
    /\ unit = "models"
    /\ Len(x) = 3
    /\ x[1].t = "m_avail" /\ x[2].t = "m_usable" /\ x[3].t = "m_avail"
    /\ x[1].p # x[3].p
    /\ x[1].k # x[2].k
    /\ 2 \in FallbackSites(x)
    /\ NearestAvailable(x, 2) = {1, 3}
    /\ RewrittenWith(2, x[1].p)
    /\ y1.content[2].k = x[2].k

=============================================================================
